---- MODULE Spec2Model ----
(***************************************************************************)
(* Model of the o.works quoting server: the pricing computation            *)
(* (pricing.Calculate, calculateQuoteSnapshot), the snapshot writer        *)
(* (handleQuoteSave), the tolerant snapshot reader (extractBreakdownFromJSON,*)
(* extractTotalFromJSON, getQuoteDetail, listQuotes) and the admin          *)
(* operations that change the rates and the materials.                      *)
(*                                                                         *)
(* float64 values are modelled as exact rationals n/d in lowest terms plus  *)
(* the value NaN.  The numeric inputs of the model are chosen so that every *)
(* quotient and product of the computation is a dyadic rational of small    *)
(* magnitude, which float64 represents exactly: on these inputs the         *)
(* rational arithmetic below is the float64 arithmetic of the program.      *)
(***************************************************************************)
EXTENDS Integers, Sequences, FiniteSets, TLC

VARIABLES
    calcForm,      \* the form posted to /quote/calc
    calcItem,      \* pricing.ItemInput handed to Calculate
    calcExtra,     \* further quoteItemInput rows of a multi-item quote
    calcGlobal,    \* pricing.GlobalInput
    calcResult,    \* what pricing.Calculate returned for them
    snapResult,    \* what calculateQuoteSnapshot returned for them
    snapDocs,      \* the two JSON texts marshalled from snapResult
    snapRead,      \* what the snapshot reader decoded from snapDocs
    materials,     \* table materials: id -> row
    rate_config,   \* table rate_config: id -> row (the singleton has id 1)
    quotes,        \* table quotes, committed rows: id -> row
    quote_items,   \* table quote_items, committed rows: id -> row
    sqlite_sequence, \* AUTOINCREMENT counters of quotes and quote_items
    writer,        \* the request holding SQLite's write lock, or NoWriter
    save,          \* per handleQuoteSave request: position and locals
    lastRead,      \* the last response of getQuoteDetail / listQuotes
    users,         \* table users: id -> row
    packaging_rates, \* table packaging_rates: id -> row
    shipping_rates, \* table shipping_rates: id -> row
    seedRun,       \* seed.Run: its position, transaction and counters
    environ,       \* the process environment: name -> value, when set
    dotenv,        \* the .env file loadDotEnv is given, and whether it ran
    main           \* the server process: position of main, last login and rates read

calcVars == <<calcForm, calcItem, calcExtra, calcGlobal, calcResult, snapResult, snapDocs, snapRead>>

startupVars == <<users, packaging_rates, shipping_rates, seedRun, environ, dotenv, main>>

dbVars == <<materials, rate_config, quotes, quote_items, sqlite_sequence, writer>>

serverVars == <<materials, rate_config, quotes, quote_items, sqlite_sequence, writer,
                save, lastRead>>

vars == <<startupVars, calcForm, calcItem, calcExtra, calcGlobal, calcResult, snapResult, snapDocs, snapRead,
          materials, rate_config, quotes, quote_items, sqlite_sequence, writer,
          save, lastRead>>

(***************************************************************************)
(* float64                                                                 *)
(***************************************************************************)
Abs(x) == IF x < 0 THEN -x ELSE x

RECURSIVE GCD(_, _)
GCD(a, b) == IF b = 0 THEN a ELSE GCD(b, a % b)

\* the rational n/d (d # 0) in lowest terms with a positive denominator
Q(n, d) ==
    LET g == GCD(Abs(n), Abs(d))
        s == IF d < 0 THEN -1 ELSE 1
    IN  [nan |-> FALSE, n |-> s * (n \div g), d |-> s * (d \div g)]

F(n) == [nan |-> FALSE, n |-> n, d |-> 1]

NaN == [nan |-> TRUE, n |-> 0, d |-> 1]

FAdd(a, b) == IF a.nan \/ b.nan THEN NaN ELSE Q(a.n * b.d + b.n * a.d, a.d * b.d)

FMul(a, b) == IF a.nan \/ b.nan THEN NaN ELSE Q(a.n * b.n, a.d * b.d)

\* division by a non-zero finite constant, the only division the program does
FDiv(a, b) == IF a.nan \/ b.nan THEN NaN ELSE Q(a.n * b.d, a.d * b.n)

\* Go's <, <=, > on float64: every comparison with NaN is false
FLt(a, b) == ~a.nan /\ ~b.nan /\ a.n * b.d < b.n * a.d

FLe(a, b) == ~a.nan /\ ~b.nan /\ a.n * b.d <= b.n * a.d

FGt(a, b) == FLt(b, a)

(***************************************************************************)
(* internal/pricing                                                        *)
(***************************************************************************)
ZeroBreakdown ==
    [MaterialCost |-> F(0), MachineCost |-> F(0), LaborCost |-> F(0),
     Subtotal |-> F(0), Overhead |-> F(0), FailureInsurance |-> F(0),
     PackagingCost |-> F(0), ShippingCost |-> F(0), Margin |-> F(0), Tax |-> F(0)]

\* Calculate reporting the per-unit sum as Subtotal
CalculateUnitSubtotal(item, global) ==
    LET materialCost == FMul(FMul(FDiv(item.Grams, F(1000)), item.CostPerKg),
                             FAdd(F(1), FDiv(global.WastePercent, F(100))))
        machineCost == FMul(FDiv(item.PrintMinutes, F(60)), global.MachineHourlyRate)
        laborCost == FMul(item.LaborMinutes, global.LaborPerMinute)
        subtotal == FMul(FAdd(FAdd(materialCost, machineCost), laborCost), item.Quantity)
        overhead == FAdd(global.OverheadFixed,
                         FMul(subtotal, FDiv(global.OverheadPercent, F(100))))
        failureInsurance == FMul(subtotal, FDiv(global.FailureRatePercent, F(100)))
        margin == FMul(FDiv(global.MarginPercent, F(100)),
                       FAdd(FAdd(subtotal, overhead), failureInsurance))
        tax == IF global.TaxEnabled
               THEN FMul(FDiv(global.TaxPercent, F(100)),
                         FAdd(FAdd(FAdd(subtotal, overhead), failureInsurance), margin))
               ELSE F(0)
        total == FAdd(FAdd(FAdd(FAdd(FAdd(FAdd(subtotal, overhead), failureInsurance),
                                     global.PackagingCost), global.ShippingCost), margin), tax)
    IN  [Breakdown |->
            [MaterialCost |-> materialCost, MachineCost |-> machineCost,
             LaborCost |-> laborCost,
             Subtotal |-> FAdd(FAdd(materialCost, machineCost), laborCost), Overhead |-> overhead,
             FailureInsurance |-> failureInsurance,
             PackagingCost |-> global.PackagingCost,
             ShippingCost |-> global.ShippingCost, Margin |-> margin, Tax |-> tax],
         Totals |-> [Total |-> total]]

\* Calculate leaving the tax out of the total
CalculateTotalWithoutTax(item, global) ==
    LET materialCost == FMul(FMul(FDiv(item.Grams, F(1000)), item.CostPerKg),
                             FAdd(F(1), FDiv(global.WastePercent, F(100))))
        machineCost == FMul(FDiv(item.PrintMinutes, F(60)), global.MachineHourlyRate)
        laborCost == FMul(item.LaborMinutes, global.LaborPerMinute)
        subtotal == FMul(FAdd(FAdd(materialCost, machineCost), laborCost), item.Quantity)
        overhead == FAdd(global.OverheadFixed,
                         FMul(subtotal, FDiv(global.OverheadPercent, F(100))))
        failureInsurance == FMul(subtotal, FDiv(global.FailureRatePercent, F(100)))
        margin == FMul(FDiv(global.MarginPercent, F(100)),
                       FAdd(FAdd(subtotal, overhead), failureInsurance))
        tax == IF global.TaxEnabled
               THEN FMul(FDiv(global.TaxPercent, F(100)),
                         FAdd(FAdd(FAdd(subtotal, overhead), failureInsurance), margin))
               ELSE F(0)
        total == FAdd(FAdd(FAdd(FAdd(FAdd(FAdd(subtotal, overhead), failureInsurance),
                                     global.PackagingCost), global.ShippingCost), margin), F(0))
    IN  [Breakdown |->
            [MaterialCost |-> materialCost, MachineCost |-> machineCost,
             LaborCost |-> laborCost, Subtotal |-> subtotal, Overhead |-> overhead,
             FailureInsurance |-> failureInsurance,
             PackagingCost |-> global.PackagingCost,
             ShippingCost |-> global.ShippingCost, Margin |-> margin, Tax |-> tax],
         Totals |-> [Total |-> total]]

\* Calculate taking the overhead percentage of the per-unit sum
CalculateOverheadPerUnit(item, global) ==
    LET materialCost == FMul(FMul(FDiv(item.Grams, F(1000)), item.CostPerKg),
                             FAdd(F(1), FDiv(global.WastePercent, F(100))))
        machineCost == FMul(FDiv(item.PrintMinutes, F(60)), global.MachineHourlyRate)
        laborCost == FMul(item.LaborMinutes, global.LaborPerMinute)
        subtotal == FMul(FAdd(FAdd(materialCost, machineCost), laborCost), item.Quantity)
        overhead == FAdd(global.OverheadFixed,
                         FMul(FAdd(FAdd(materialCost, machineCost), laborCost),
                              FDiv(global.OverheadPercent, F(100))))
        failureInsurance == FMul(subtotal, FDiv(global.FailureRatePercent, F(100)))
        margin == FMul(FDiv(global.MarginPercent, F(100)),
                       FAdd(FAdd(subtotal, overhead), failureInsurance))
        tax == IF global.TaxEnabled
               THEN FMul(FDiv(global.TaxPercent, F(100)),
                         FAdd(FAdd(FAdd(subtotal, overhead), failureInsurance), margin))
               ELSE F(0)
        total == FAdd(FAdd(FAdd(FAdd(FAdd(FAdd(subtotal, overhead), failureInsurance),
                                     global.PackagingCost), global.ShippingCost), margin), tax)
    IN  [Breakdown |->
            [MaterialCost |-> materialCost, MachineCost |-> machineCost,
             LaborCost |-> laborCost, Subtotal |-> subtotal, Overhead |-> overhead,
             FailureInsurance |-> failureInsurance,
             PackagingCost |-> global.PackagingCost,
             ShippingCost |-> global.ShippingCost, Margin |-> margin, Tax |-> tax],
         Totals |-> [Total |-> total]]

Calculate(item, global) ==
    LET materialCost == FMul(FMul(FDiv(item.Grams, F(1000)), item.CostPerKg),
                             FAdd(F(1), FDiv(global.WastePercent, F(100))))
        machineCost == FMul(FDiv(item.PrintMinutes, F(60)), global.MachineHourlyRate)
        laborCost == FMul(item.LaborMinutes, global.LaborPerMinute)
        subtotal == FMul(FAdd(FAdd(materialCost, machineCost), laborCost), item.Quantity)
        overhead == FAdd(global.OverheadFixed,
                         FMul(subtotal, FDiv(global.OverheadPercent, F(100))))
        failureInsurance == FMul(subtotal, FDiv(global.FailureRatePercent, F(100)))
        margin == FMul(FDiv(global.MarginPercent, F(100)),
                       FAdd(FAdd(subtotal, overhead), failureInsurance))
        tax == IF global.TaxEnabled
               THEN FMul(FDiv(global.TaxPercent, F(100)),
                         FAdd(FAdd(FAdd(subtotal, overhead), failureInsurance), margin))
               ELSE F(0)
        total == FAdd(FAdd(FAdd(FAdd(FAdd(FAdd(subtotal, overhead), failureInsurance),
                                     global.PackagingCost), global.ShippingCost), margin), tax)
    IN  [Breakdown |->
            [MaterialCost |-> materialCost, MachineCost |-> machineCost,
             LaborCost |-> laborCost, Subtotal |-> subtotal, Overhead |-> overhead,
             FailureInsurance |-> failureInsurance,
             PackagingCost |-> global.PackagingCost,
             ShippingCost |-> global.ShippingCost, Margin |-> margin, Tax |-> tax],
         Totals |-> [Total |-> total]]

(***************************************************************************)
(* calculateQuoteSnapshot (cmd/server/main.go)                             *)
(***************************************************************************)
\* SELECT cost_per_kg FROM materials WHERE id = ? AND active = TRUE
HasActiveMaterial(mats, id) == id \in DOMAIN mats /\ mats[id].active

\* SnapshotLine adding the per-unit costs of the item, whatever its quantity
SnapshotLinePerUnit(acc, item, costPerKg, global) ==
    LET lineMaterialCost == FMul(FMul(FDiv(item.Grams, F(1000)), costPerKg),
                                 FAdd(F(1), FDiv(global.WastePercent, F(100))))
        lineMachineCost == FMul(FDiv(item.PrintMinutes, F(60)), global.MachineHourlyRate)
        lineLaborCost == FMul(item.LaborMinutes, global.LaborPerMinute)
    IN  [acc EXCEPT !.MaterialCost = FAdd(@, lineMaterialCost),
                    !.MachineCost = FAdd(@, lineMachineCost),
                    !.LaborCost = FAdd(@, lineLaborCost)]

\* SnapshotLine charging the labor of one unit, whatever the quantity
SnapshotLineLaborOnce(acc, item, costPerKg, global) ==
    LET lineMaterialCost == FMul(FMul(FDiv(item.Grams, F(1000)), costPerKg),
                                 FAdd(F(1), FDiv(global.WastePercent, F(100))))
        lineMachineCost == FMul(FDiv(item.PrintMinutes, F(60)), global.MachineHourlyRate)
        lineLaborCost == FMul(item.LaborMinutes, global.LaborPerMinute)
        quantity == F(item.Quantity)
    IN  [acc EXCEPT !.MaterialCost = FAdd(@, FMul(lineMaterialCost, quantity)),
                    !.MachineCost = FAdd(@, FMul(lineMachineCost, quantity)),
                    !.LaborCost = FAdd(@, lineLaborCost)]

\* one pass of the loop body for an item whose material was found
SnapshotLine(acc, item, costPerKg, global) ==
    LET lineMaterialCost == FMul(FMul(FDiv(item.Grams, F(1000)), costPerKg),
                                 FAdd(F(1), FDiv(global.WastePercent, F(100))))
        lineMachineCost == FMul(FDiv(item.PrintMinutes, F(60)), global.MachineHourlyRate)
        lineLaborCost == FMul(item.LaborMinutes, global.LaborPerMinute)
        quantity == F(item.Quantity)
    IN  [acc EXCEPT !.MaterialCost = FAdd(@, FMul(lineMaterialCost, quantity)),
                    !.MachineCost = FAdd(@, FMul(lineMachineCost, quantity)),
                    !.LaborCost = FAdd(@, FMul(lineLaborCost, quantity))]

\* SnapshotFinish charging the tax whether or not it is enabled
SnapshotFinishTaxAlways(acc, global) ==
    LET subtotal == FAdd(FAdd(acc.MaterialCost, acc.MachineCost), acc.LaborCost)
        overhead == FAdd(global.OverheadFixed,
                         FMul(subtotal, FDiv(global.OverheadPercent, F(100))))
        failureInsurance == FMul(subtotal, FDiv(global.FailureRatePercent, F(100)))
        margin == FMul(FDiv(global.MarginPercent, F(100)),
                       FAdd(FAdd(subtotal, overhead), failureInsurance))
        tax == FMul(FDiv(global.TaxPercent, F(100)),
                    FAdd(FAdd(FAdd(subtotal, overhead), failureInsurance), margin))
        breakdown == [acc EXCEPT !.Subtotal = subtotal, !.Overhead = overhead,
                                 !.FailureInsurance = failureInsurance,
                                 !.PackagingCost = global.PackagingCost,
                                 !.ShippingCost = global.ShippingCost,
                                 !.Margin = margin, !.Tax = tax]
    IN  [err |-> FALSE,
         Breakdown |-> breakdown,
         Totals |-> [Total |->
            FAdd(FAdd(FAdd(FAdd(FAdd(FAdd(breakdown.Subtotal, breakdown.Overhead),
                                          breakdown.FailureInsurance),
                                     breakdown.PackagingCost), breakdown.ShippingCost),
                      breakdown.Margin), breakdown.Tax)]]

\* SnapshotFinish marking up the packaging and the shipping cost as well
SnapshotFinishMarginOnAll(acc, global) ==
    LET subtotal == FAdd(FAdd(acc.MaterialCost, acc.MachineCost), acc.LaborCost)
        overhead == FAdd(global.OverheadFixed,
                         FMul(subtotal, FDiv(global.OverheadPercent, F(100))))
        failureInsurance == FMul(subtotal, FDiv(global.FailureRatePercent, F(100)))
        margin == FMul(FDiv(global.MarginPercent, F(100)),
                       FAdd(FAdd(FAdd(FAdd(subtotal, overhead), failureInsurance),
                                 global.PackagingCost), global.ShippingCost))
        tax == IF global.TaxEnabled
               THEN FMul(FDiv(global.TaxPercent, F(100)),
                         FAdd(FAdd(FAdd(subtotal, overhead), failureInsurance), margin))
               ELSE F(0)
        breakdown == [acc EXCEPT !.Subtotal = subtotal, !.Overhead = overhead,
                                 !.FailureInsurance = failureInsurance,
                                 !.PackagingCost = global.PackagingCost,
                                 !.ShippingCost = global.ShippingCost,
                                 !.Margin = margin, !.Tax = tax]
    IN  [err |-> FALSE,
         Breakdown |-> breakdown,
         Totals |-> [Total |->
            FAdd(FAdd(FAdd(FAdd(FAdd(FAdd(breakdown.Subtotal, breakdown.Overhead),
                                          breakdown.FailureInsurance),
                                     breakdown.PackagingCost), breakdown.ShippingCost),
                      breakdown.Margin), breakdown.Tax)]]

\* the statements after the loop: batch-level figures and the total
SnapshotFinish(acc, global) ==
    LET subtotal == FAdd(FAdd(acc.MaterialCost, acc.MachineCost), acc.LaborCost)
        overhead == FAdd(global.OverheadFixed,
                         FMul(subtotal, FDiv(global.OverheadPercent, F(100))))
        failureInsurance == FMul(subtotal, FDiv(global.FailureRatePercent, F(100)))
        margin == FMul(FDiv(global.MarginPercent, F(100)),
                       FAdd(FAdd(subtotal, overhead), failureInsurance))
        tax == IF global.TaxEnabled
               THEN FMul(FDiv(global.TaxPercent, F(100)),
                         FAdd(FAdd(FAdd(subtotal, overhead), failureInsurance), margin))
               ELSE F(0)
        breakdown == [acc EXCEPT !.Subtotal = subtotal, !.Overhead = overhead,
                                 !.FailureInsurance = failureInsurance,
                                 !.PackagingCost = global.PackagingCost,
                                 !.ShippingCost = global.ShippingCost,
                                 !.Margin = margin, !.Tax = tax]
    IN  [err |-> FALSE,
         Breakdown |-> breakdown,
         Totals |-> [Total |->
            FAdd(FAdd(FAdd(FAdd(FAdd(FAdd(breakdown.Subtotal, breakdown.Overhead),
                                          breakdown.FailureInsurance),
                                     breakdown.PackagingCost), breakdown.ShippingCost),
                      breakdown.Margin), breakdown.Tax)]]

SnapshotError == [err |-> TRUE, Breakdown |-> ZeroBreakdown, Totals |-> [Total |-> F(0)]]

RECURSIVE SnapshotLoop(_, _, _, _)
SnapshotLoop(acc, items, global, mats) ==
    IF items = <<>> THEN SnapshotFinish(acc, global)
    ELSE IF ~HasActiveMaterial(mats, Head(items).MaterialID) THEN SnapshotError
    ELSE SnapshotLoop(SnapshotLine(acc, Head(items),
                                   mats[Head(items).MaterialID].cost_per_kg, global),
                      Tail(items), global, mats)

calculateQuoteSnapshot(items, global, mats) ==
    IF Len(items) = 0 THEN SnapshotError
    ELSE SnapshotLoop(ZeroBreakdown, items, global, mats)

(***************************************************************************)
(* Text.  A Go string is a sequence of one-character strings.              *)
(***************************************************************************)
UpperCase == <<"A","B","C","D","E","F","G","H","I","J","K","L","M",
               "N","O","P","Q","R","S","T","U","V","W","X","Y","Z">>

LowerCase == <<"a","b","c","d","e","f","g","h","i","j","k","l","m",
               "n","o","p","q","r","s","t","u","v","w","x","y","z">>

Digits == <<"0","1","2","3","4","5","6","7","8","9">>

\* strings.ToLower on one character
ToLowerChar(c) ==
    IF \E i \in 1..26 : UpperCase[i] = c
    THEN LowerCase[CHOOSE i \in 1..26 : UpperCase[i] = c]
    ELSE c

ToLower(s) == [i \in 1..Len(s) |-> ToLowerChar(s[i])]

RECURSIVE TrimLeft(_)
TrimLeft(s) == IF s # <<>> /\ Head(s) = " " THEN TrimLeft(Tail(s)) ELSE s

RECURSIVE TrimRight(_)
TrimRight(s) ==
    IF s # <<>> /\ s[Len(s)] = " " THEN TrimRight(SubSeq(s, 1, Len(s) - 1)) ELSE s

TrimSpace(s) == TrimRight(TrimLeft(s))

\* strings.ReplaceAll(key, "-", "_")
ReplaceDash(s) == [i \in 1..Len(s) |-> IF s[i] = "-" THEN "_" ELSE s[i]]

DigitVal(c) == (CHOOSE i \in 1..10 : Digits[i] = c) - 1

RECURSIVE NatDigits(_)
NatDigits(n) ==
    IF n < 10 THEN <<Digits[n + 1]>> ELSE NatDigits(n \div 10) \o <<Digits[(n % 10) + 1]>>

\* the decimal digits of rem/d after the point (d is a power of two here,
\* so the expansion ends)
RECURSIVE FracDigits(_, _)
FracDigits(rem, d) ==
    IF rem = 0 THEN <<>>
    ELSE <<Digits[((rem * 10) \div d) + 1]>> \o FracDigits((rem * 10) % d, d)

\* encoding/json's float64 encoder for a finite value of ordinary magnitude:
\* strconv.AppendFloat(b, f, 'f', -1, 64), the shortest decimal text that
\* reads back as f, which for these values is their exact expansion
FormatFloat(x) ==
    LET m == Abs(x.n)
        rem == m % x.d
    IN  (IF x.n < 0 THEN <<"-">> ELSE <<>>)
        \o NatDigits(m \div x.d)
        \o (IF rem = 0 THEN <<>> ELSE <<".">> \o FracDigits(rem, x.d))

RECURSIVE DigitsVal(_)
DigitsVal(s) ==
    IF s = <<>> THEN 0
    ELSE DigitsVal(SubSeq(s, 1, Len(s) - 1)) * 10 + DigitVal(s[Len(s)])

RECURSIVE Pow10(_)
Pow10(k) == IF k = 0 THEN 1 ELSE 10 * Pow10(k - 1)

IndexOf(s, c) == IF \E i \in 1..Len(s) : s[i] = c
                 THEN CHOOSE i \in 1..Len(s) : s[i] = c /\ \A j \in 1..(i - 1) : s[j] # c
                 ELSE 0

\* the float64 a JSON number literal [-]digits[.digits] decodes to
ParseNumber(tok) ==
    LET neg == tok[1] = "-"
        body == IF neg THEN Tail(tok) ELSE tok
        dot == IndexOf(body, ".")
        ip == IF dot = 0 THEN body ELSE SubSeq(body, 1, dot - 1)
        fp == IF dot = 0 THEN <<>> ELSE SubSeq(body, dot + 1, Len(body))
        mag == FAdd(F(DigitsVal(ip)), Q(DigitsVal(fp), Pow10(Len(fp))))
    IN  IF neg THEN FMul(F(-1), mag) ELSE mag

(***************************************************************************)
(* JSON texts.  A text is either not valid JSON or a JSON value; an object  *)
(* is the sequence of its members, whose keys are distinct.                 *)
(***************************************************************************)
JNum(tok) == [t |-> "num", tok |-> tok, pairs |-> <<>>]

JStr == [t |-> "str", tok |-> <<>>, pairs |-> <<>>]

JNull == [t |-> "null", tok |-> <<>>, pairs |-> <<>>]

JObj(pairs) == [t |-> "obj", tok |-> <<>>, pairs |-> pairs]

Member(k, v) == [k |-> k, v |-> v]

JSONText(root) == [valid |-> TRUE, root |-> root]

Malformed == [valid |-> FALSE, root |-> JNull]

\* Go maps from string keys, as functions on a finite set of keys
EmptyMap == [k \in {} |-> F(0)]

Put(m, k, v) == [x \in (DOMAIN m) \cup {k} |-> IF x = k THEN v ELSE m[x]]

(***************************************************************************)
(* Snapshot writer: json.Marshal of quoteCalcBreakdown and quoteCalcTotals  *)
(***************************************************************************)
KeyMaterialCost == <<"m","a","t","e","r","i","a","l","_","c","o","s","t">>

KeyMachineCost == <<"m","a","c","h","i","n","e","_","c","o","s","t">>

KeyLaborCost == <<"l","a","b","o","r","_","c","o","s","t">>

KeySubtotal == <<"s","u","b","t","o","t","a","l">>

KeyOverhead == <<"o","v","e","r","h","e","a","d">>

KeyFailureInsurance == <<"f","a","i","l","u","r","e","_","i","n","s","u","r","a","n","c","e">>

KeyPackagingCost == <<"p","a","c","k","a","g","i","n","g","_","c","o","s","t">>

KeyShippingCost == <<"s","h","i","p","p","i","n","g","_","c","o","s","t">>

KeyMargin == <<"m","a","r","g","i","n">>

KeyTax == <<"t","a","x">>

KeyMaterial == <<"m","a","t","e","r","i","a","l">>

KeyMachine == <<"m","a","c","h","i","n","e">>

KeyLabor == <<"l","a","b","o","r">>

KeyFailure == <<"f","a","i","l","u","r","e">>

KeyPackaging == <<"p","a","c","k","a","g","i","n","g">>

KeyShipping == <<"s","h","i","p","p","i","n","g">>

KeyTotal == <<"t","o","t","a","l">>

KeyGrandTotal == <<"g","r","a","n","d","_","t","o","t","a","l">>

KeyFinalTotal == <<"f","i","n","a","l","_","t","o","t","a","l">>

BreakdownPrefix == <<"b","r","e","a","k","d","o","w","n","_">>

\* json.Marshal fails with UnsupportedValueError on a NaN field
MarshalBreakdown(b) ==
    IF b.MaterialCost.nan \/ b.MachineCost.nan \/ b.LaborCost.nan \/ b.Subtotal.nan
       \/ b.Overhead.nan \/ b.FailureInsurance.nan \/ b.PackagingCost.nan \/ b.ShippingCost.nan
       \/ b.Margin.nan \/ b.Tax.nan
    THEN [err |-> TRUE, text |-> Malformed]
    ELSE [err |-> FALSE, text |-> JSONText(JObj(<<
            Member(KeyMaterialCost, JNum(FormatFloat(b.MaterialCost))),
            Member(KeyMachineCost, JNum(FormatFloat(b.MachineCost))),
            Member(KeyLaborCost, JNum(FormatFloat(b.LaborCost))),
            Member(KeySubtotal, JNum(FormatFloat(b.Subtotal))),
            Member(KeyOverhead, JNum(FormatFloat(b.Overhead))),
            Member(KeyFailureInsurance, JNum(FormatFloat(b.FailureInsurance))),
            Member(KeyPackagingCost, JNum(FormatFloat(b.PackagingCost))),
            Member(KeyShippingCost, JNum(FormatFloat(b.ShippingCost))),
            Member(KeyMargin, JNum(FormatFloat(b.Margin))),
            Member(KeyTax, JNum(FormatFloat(b.Tax)))>>))]

MarshalTotals(t) ==
    IF t.Total.nan
    THEN [err |-> TRUE, text |-> Malformed]
    ELSE [err |-> FALSE,
          text |-> JSONText(JObj(<<Member(KeyTotal, JNum(FormatFloat(t.Total)))>>))]

(***************************************************************************)
(* Snapshot reader (unnamed/part_001)                                      *)
(***************************************************************************)
normalizeJSONKey(key) == ReplaceDash(TrimSpace(ToLower(key)))

\* the loop of collectNumericValues over the members of source in the order
\* given; a later member overwrites an earlier one with the same flat key
RECURSIVE collectNumericValues(_, _, _)
collectNumericValues(values, prefix, source) ==
    IF source = <<>> THEN values
    ELSE LET key == Head(source).k
             val == Head(source).v
             normalizedKey == IF prefix # <<>>
                              THEN prefix \o <<"_">> \o normalizeJSONKey(key)
                              ELSE normalizeJSONKey(key)
             next == CASE val.t = "num" -> Put(values, normalizedKey, ParseNumber(val.tok))
                       [] val.t = "obj" -> collectNumericValues(values, normalizedKey, val.pairs)
                       [] OTHER -> values
         IN  collectNumericValues(next, prefix, Tail(source))

\* `for key, val := range source` visits a Go map in an unspecified order:
\* every order of the members, at every nesting level, is possible
PermSeqs(s) == { [i \in 1..Len(s) |-> s[p[i]]] : p \in Permutations(1..Len(s)) }

RECURSIVE IterationOrders(_)
RECURSIVE MemberOrders(_)
MemberOrders(s) ==
    IF s = <<>> THEN {<<>>}
    ELSE LET heads == IF Head(s).v.t = "obj"
                      THEN { Member(Head(s).k, JObj(o)) : o \in IterationOrders(Head(s).v.pairs) }
                      ELSE {Head(s)}
         IN  { <<h>> \o t : h \in heads, t \in MemberOrders(Tail(s)) }

IterationOrders(pairs) == UNION { MemberOrders(q) : q \in PermSeqs(pairs) }

\* json.Unmarshal into map[string]any succeeds on an object and on null
DecodesToMap(raw) == raw.valid /\ raw.root.t \in {"obj", "null"}

\* the flat keys collectNumericValues writes for source, one per numeric leaf
RECURSIVE FlatKeys(_, _)
FlatKeys(prefix, source) ==
    IF source = <<>> THEN <<>>
    ELSE LET normalizedKey == IF prefix # <<>>
                              THEN prefix \o <<"_">> \o normalizeJSONKey(Head(source).k)
                              ELSE normalizeJSONKey(Head(source).k)
             here == CASE Head(source).v.t = "num" -> <<normalizedKey>>
                       [] Head(source).v.t = "obj" -> FlatKeys(normalizedKey, Head(source).v.pairs)
                       [] OTHER -> <<>>
         IN  here \o FlatKeys(prefix, Tail(source))

KeysCollide(source) ==
    LET ks == FlatKeys(<<>>, source)
    IN  \E i, j \in 1..Len(ks) : i # j /\ ks[i] = ks[j]

\* the maps parseJSONNumberMap can return for raw, one per iteration order.
\* When no two leaves share a flat key every order writes the same map, and
\* the order of the text stands for all of them.
parseJSONNumberMap(raw) ==
    IF ~DecodesToMap(raw) THEN {EmptyMap}
    ELSE IF ~KeysCollide(raw.root.pairs)
         THEN {collectNumericValues(EmptyMap, <<>>, raw.root.pairs)}
    ELSE { collectNumericValues(EmptyMap, <<>>, o) : o \in IterationOrders(raw.root.pairs) }

RECURSIVE pickFloat(_, _)
\* pickFloat without the breakdown_ form of the keys
RECURSIVE pickFloatPlain(_, _)
pickFloatPlain(values, keys) ==
    IF keys = <<>> THEN F(0)
    ELSE IF normalizeJSONKey(Head(keys)) \in DOMAIN values
         THEN values[normalizeJSONKey(Head(keys))]
    ELSE pickFloatPlain(values, Tail(keys))

\* pickFloat trying every plain alias before any breakdown_ form
pickFloatPlainFirst(values, keys) ==
    LET plain == { i \in 1..Len(keys) : normalizeJSONKey(keys[i]) \in DOMAIN values }
        prefixed == { i \in 1..Len(keys) :
                        (BreakdownPrefix \o normalizeJSONKey(keys[i])) \in DOMAIN values }
        first(S) == CHOOSE i \in S : \A j \in S : i <= j
    IN  IF plain # {} THEN values[normalizeJSONKey(keys[first(plain)])]
        ELSE IF prefixed # {}
             THEN values[BreakdownPrefix \o normalizeJSONKey(keys[first(prefixed)])]
        ELSE F(0)

pickFloat(values, keys) ==
    IF keys = <<>> THEN F(0)
    ELSE IF normalizeJSONKey(Head(keys)) \in DOMAIN values
         THEN values[normalizeJSONKey(Head(keys))]
    ELSE IF (BreakdownPrefix \o normalizeJSONKey(Head(keys))) \in DOMAIN values
         THEN values[BreakdownPrefix \o normalizeJSONKey(Head(keys))]
    ELSE pickFloat(values, Tail(keys))

\* the reader taking the shipping cost from the packaging keys
BreakdownOfShippingFromPackaging(values) ==
    [MaterialCost |-> pickFloat(values, <<KeyMaterialCost, KeyMaterial>>),
     MachineCost |-> pickFloat(values, <<KeyMachineCost, KeyMachine>>),
     LaborCost |-> pickFloat(values, <<KeyLaborCost, KeyLabor>>),
     Subtotal |-> pickFloat(values, <<KeySubtotal>>),
     Overhead |-> pickFloat(values, <<KeyOverhead>>),
     FailureInsurance |-> pickFloat(values, <<KeyFailureInsurance, KeyFailure>>),
     PackagingCost |-> pickFloat(values, <<KeyPackagingCost, KeyPackaging>>),
     ShippingCost |-> pickFloat(values, <<KeyPackagingCost, KeyPackaging>>),
     Margin |-> pickFloat(values, <<KeyMargin>>),
     Tax |-> pickFloat(values, <<KeyTax>>)]

BreakdownOf(values) ==
    [MaterialCost |-> pickFloat(values, <<KeyMaterialCost, KeyMaterial>>),
     MachineCost |-> pickFloat(values, <<KeyMachineCost, KeyMachine>>),
     LaborCost |-> pickFloat(values, <<KeyLaborCost, KeyLabor>>),
     Subtotal |-> pickFloat(values, <<KeySubtotal>>),
     Overhead |-> pickFloat(values, <<KeyOverhead>>),
     FailureInsurance |-> pickFloat(values, <<KeyFailureInsurance, KeyFailure>>),
     PackagingCost |-> pickFloat(values, <<KeyPackagingCost, KeyPackaging>>),
     ShippingCost |-> pickFloat(values, <<KeyShippingCost, KeyShipping>>),
     Margin |-> pickFloat(values, <<KeyMargin>>),
     Tax |-> pickFloat(values, <<KeyTax>>)]

\* the Breakdowns extractBreakdownFromJSON can return for raw
extractBreakdownFromJSON(raw) == { BreakdownOf(values) : values \in parseJSONNumberMap(raw) }

\* json.Unmarshal into map[string]float64 reports an error unless the text is
\* an object (or null) all of whose values are numbers or null
DecodesToFloatMap(raw) ==
    /\ DecodesToMap(raw)
    /\ \A i \in 1..Len(raw.root.pairs) : raw.root.pairs[i].v.t \in {"num", "null"}

\* the decoded map[string]float64: raw keys, null leaving the zero value
FloatMap(raw) ==
    [k \in { raw.root.pairs[i].k : i \in 1..Len(raw.root.pairs) } |->
        LET v == (CHOOSE i \in 1..Len(raw.root.pairs) : raw.root.pairs[i].k = k)
        IN  IF raw.root.pairs[v].v.t = "num"
            THEN ParseNumber(raw.root.pairs[v].v.tok) ELSE F(0)]

RECURSIVE FirstPresent(_, _)
FirstPresent(values, keys) ==
    IF keys = <<>> THEN F(0)
    ELSE IF Head(keys) \in DOMAIN values THEN values[Head(keys)]
    ELSE FirstPresent(values, Tail(keys))

extractTotalFromJSON(totalsJSON) ==
    IF ~DecodesToFloatMap(totalsJSON) THEN F(0)
    ELSE FirstPresent(FloatMap(totalsJSON), <<KeyTotal, KeyGrandTotal, KeyFinalTotal>>)

(***************************************************************************)
(* Form values.  A submitted value is the text of an integer, the text of   *)
(* another float64 (a decimal, or "NaN", which strconv.ParseFloat accepts), *)
(* or text that is no number at all.                                        *)
(***************************************************************************)
RawInt(i) == [kind |-> "int", int |-> i, num |-> F(i)]

RawNum(x) == [kind |-> "num", int |-> 0, num |-> x]

RawText == [kind |-> "text", int |-> 0, num |-> F(0)]

\* strconv.ParseFloat(raw, 64)
ParseFloat(raw) == [err |-> raw.kind = "text", value |-> raw.num]

\* strconv.Atoi / strconv.ParseInt(raw, 10, 64)
Atoi(raw) == [err |-> raw.kind # "int", value |-> raw.int]

ParseError == [err |-> TRUE, value |-> F(0)]

parseNonNegativeFloat(raw) ==
    IF ParseFloat(raw).err THEN ParseError
    ELSE IF FLt(ParseFloat(raw).value, F(0)) THEN ParseError
    ELSE [err |-> FALSE, value |-> ParseFloat(raw).value]

parsePercent(raw) ==
    IF parseNonNegativeFloat(raw).err THEN ParseError
    ELSE IF FGt(parseNonNegativeFloat(raw).value, F(100)) THEN ParseError
    ELSE [err |-> FALSE, value |-> parseNonNegativeFloat(raw).value]

parsePositiveFloat(raw) ==
    IF ParseFloat(raw).err THEN ParseError
    ELSE IF FLe(ParseFloat(raw).value, F(0)) THEN ParseError
    ELSE [err |-> FALSE, value |-> ParseFloat(raw).value]

\* strconv.ParseInt(raw, 10, 64) and value > 0
parseRequiredID(raw) ==
    IF Atoi(raw).err \/ Atoi(raw).value <= 0 THEN [err |-> TRUE, value |-> 0]
    ELSE [err |-> FALSE, value |-> Atoi(raw).value]

\* the fields of the calculator form; shipping_id and packaging_id are posted
\* blank, for which parseOptionalID answers 0 without an error
NoCalcForm ==
    [material_id |-> RawText, grams |-> RawText, printMinutes |-> RawText,
     laborMinutes |-> RawText, quantity |-> RawText, wastePercent |-> RawText,
     marginPercent |-> RawText, taxEnabled |-> FALSE, taxPercent |-> RawText]

parseQuoteFormValues(form) ==
    LET MaterialID == parseRequiredID(form.material_id)
        Grams == parsePositiveFloat(form.grams)
        PrintMinutes == parseNonNegativeFloat(form.printMinutes)
        LaborMinutes == parseNonNegativeFloat(form.laborMinutes)
        Quantity == parsePositiveFloat(form.quantity)
        WastePercent == parsePercent(form.wastePercent)
        MarginPercent == parsePercent(form.marginPercent)
        TaxPercent == parsePercent(form.taxPercent)
    IN  [err |-> \/ MaterialID.err \/ Grams.err \/ PrintMinutes.err \/ LaborMinutes.err
                 \/ Quantity.err \/ WastePercent.err \/ MarginPercent.err
                 \/ TaxPercent.err,
         MaterialID |-> MaterialID.value, ShippingID |-> 0, PackagingID |-> 0,
         Grams |-> Grams.value, PrintMinutes |-> PrintMinutes.value,
         LaborMinutes |-> LaborMinutes.value, Quantity |-> Quantity.value,
         WastePercent |-> WastePercent.value, MarginPercent |-> MarginPercent.value,
         TaxEnabled |-> form.taxEnabled, TaxPercent |-> TaxPercent.value]

\* the loop of parseQuoteItemsForm from item i on
RECURSIVE ParseItemsFrom(_, _, _)
ParseItemsFrom(form, i, items) ==
    IF i > Len(form.material_id) THEN [err |-> FALSE, items |-> items]
    ELSE LET materialID == Atoi(form.material_id[i])
             grams == parsePositiveFloat(form.grams[i])
             printMinutes == parsePositiveFloat(form.print_minutes[i])
             laborMinutes == parseNonNegativeFloat(form.labor_minutes[i])
             quantity == Atoi(form.quantity[i])
         IN  IF \/ materialID.err \/ materialID.value <= 0
                \/ grams.err \/ printMinutes.err \/ laborMinutes.err
                \/ quantity.err \/ quantity.value <= 0
             THEN [err |-> TRUE, items |-> <<>>]
             ELSE ParseItemsFrom(form, i + 1,
                     Append(items, [MaterialID |-> materialID.value,
                                    Grams |-> grams.value,
                                    PrintMinutes |-> printMinutes.value,
                                    LaborMinutes |-> laborMinutes.value,
                                    Quantity |-> quantity.value]))

parseQuoteItemsForm(form) ==
    LET count == Len(form.material_id)
    IN  IF count = 0 THEN [err |-> TRUE, items |-> <<>>]
        ELSE IF \/ Len(form.grams) # count \/ Len(form.print_minutes) # count
                \/ Len(form.labor_minutes) # count \/ Len(form.quantity) # count
             THEN [err |-> TRUE, items |-> <<>>]
        ELSE ParseItemsFrom(form, 1, <<>>)

(***************************************************************************)
(* The database.  A table is a function from primary keys to rows.  SQLite  *)
(* admits one writing transaction at a time; what a transaction wrote is in *)
(* its own buffer until COMMIT and is dropped by ROLLBACK.                  *)
(***************************************************************************)
NoWriter == 0

Savers == {1, 2}

EmptyTable == [id \in {} |-> 0]

Merge(t, u) == [id \in (DOMAIN t) \cup (DOMAIN u) |-> IF id \in DOMAIN u THEN u[id] ELSE t[id]]

Max(S) == IF S = {} THEN 0 ELSE CHOOSE x \in S : \A y \in S : y <= x

Min(S) == CHOOSE x \in S : \A y \in S : x <= y

\* ensureRateConfig: VALUES (1, 0, 0, 0, 0, 0, 0, 'COP')
DefaultRateConfig ==
    [MachineHourlyRate |-> F(0), LaborPerMinute |-> F(0), OverheadFixed |-> F(0),
     OverheadPercent |-> F(0), FailureRatePercent |-> F(0), TaxPercent |-> F(0)]

\* ensureRateConfig as INSERT OR REPLACE: the defaults written over the row
ensureRateConfigReplacing(table) ==
    [id \in DOMAIN table \cup {1} |-> IF id = 1 THEN DefaultRateConfig ELSE table[id]]

\* INSERT INTO rate_config ... ON CONFLICT(id) DO NOTHING
ensureRateConfig(table) ==
    IF 1 \in DOMAIN table THEN table ELSE Merge(table, [id \in {1} |-> DefaultRateConfig])

\* UPDATE rate_config SET ... WHERE id = 1
updateRateConfig(table, rc) ==
    IF 1 \in DOMAIN table THEN [table EXCEPT ![1] = rc] ELSE table

NoTx == [quotes |-> EmptyTable, quote_items |-> EmptyTable]

EmptyForm ==
    [material_id |-> <<>>, grams |-> <<>>, print_minutes |-> <<>>, labor_minutes |-> <<>>,
     quantity |-> <<>>, waste_percent |-> RawText, margin_percent |-> RawText,
     packaging_cost |-> RawText, shipping_cost |-> RawText, tax_enabled |-> FALSE,
     title |-> <<>>, notes |-> <<>>]

ZeroGlobal ==
    [MachineHourlyRate |-> F(0), LaborPerMinute |-> F(0), OverheadFixed |-> F(0),
     OverheadPercent |-> F(0), FailureRatePercent |-> F(0), WastePercent |-> F(0),
     MarginPercent |-> F(0), TaxEnabled |-> FALSE, TaxPercent |-> F(0),
     PackagingCost |-> F(0), ShippingCost |-> F(0)]

\* a handleQuoteSave request that has not arrived yet
IdleSave ==
    [pc |-> "idle", form |-> EmptyForm, items |-> <<>>, global |-> ZeroGlobal,
     idx |-> 0, breakdown |-> ZeroBreakdown, totalsJSON |-> Malformed,
     breakdownJSON |-> Malformed, quoteID |-> 0, tx |-> NoTx, failedAt |-> "none"]

\* a request that has answered: only the outcome is kept
Finished(pc, failedAt, quoteID) ==
    [IdleSave EXCEPT !.pc = pc, !.failedAt = failedAt, !.quoteID = quoteID]

\* the pricing.GlobalInput handleQuoteSave builds (lines 638-650)
SaveGlobal(rates, wastePercent, marginPercent, packagingCost, shippingCost, taxEnabled) ==
    [MachineHourlyRate |-> rates.MachineHourlyRate,
     LaborPerMinute |-> rates.LaborPerMinute,
     OverheadFixed |-> rates.OverheadFixed,
     OverheadPercent |-> rates.OverheadPercent,
     FailureRatePercent |-> rates.FailureRatePercent,
     WastePercent |-> wastePercent,
     MarginPercent |-> marginPercent,
     TaxEnabled |-> taxEnabled,
     TaxPercent |-> rates.TaxPercent,
     PackagingCost |-> packagingCost,
     ShippingCost |-> shippingCost]

\* nullableString(strings.TrimSpace(value)): NULL for the empty string
NullString == [null |-> TRUE, s |-> <<>>]

nullableString(value) == IF value = <<>> THEN NullString ELSE [null |-> FALSE, s |-> value]

\* COALESCE(column, '')
Coalesce(v) == IF v.null THEN <<>> ELSE v.s

(***************************************************************************)
(* handleQuoteSave (cmd/server/main.go), one action per database call       *)
(***************************************************************************)
OtherVarsUnchanged == UNCHANGED <<startupVars, calcForm, calcItem, calcExtra, calcGlobal, calcResult,
                                       snapResult, snapDocs, snapRead, lastRead>>

\* lines 594-600 and getRateConfig's first statement: the request arrives and
\* ensureRateConfig runs; the INSERT waits while another request writes
SaveEnsureRates(r, form) ==
    /\ save[r].pc = "idle"
    /\ writer = NoWriter
    /\ rate_config' = ensureRateConfig(rate_config)
    /\ save' = [save EXCEPT ![r] = [IdleSave EXCEPT !.pc = "rates", !.form = form]]
    /\ UNCHANGED <<materials, quotes, quote_items, sqlite_sequence, writer>>
    /\ OtherVarsUnchanged

\* getRateConfig's SELECT, then lines 606-636: the form is validated
SaveReadRates(r) ==
    /\ save[r].pc = "rates"
    /\ LET form == save[r].form
           items == parseQuoteItemsForm(form)
           wastePercent == parsePercent(form.waste_percent)
           marginPercent == parsePercent(form.margin_percent)
           packagingCost == parseNonNegativeFloat(form.packaging_cost)
           shippingCost == parseNonNegativeFloat(form.shipping_cost)
       IN  IF 1 \notin DOMAIN rate_config
           THEN save' = [save EXCEPT ![r] = Finished("failed", "rates", 0)]
           ELSE IF \/ items.err \/ wastePercent.err \/ marginPercent.err
                   \/ packagingCost.err \/ shippingCost.err
           THEN save' = [save EXCEPT ![r] = Finished("failed", "validation", 0)]
           ELSE save' = [save EXCEPT ![r].pc = "calc",
                                     ![r].items = items.items,
                                     ![r].idx = 1,
                                     ![r].global = SaveGlobal(rate_config[1],
                                        wastePercent.value, marginPercent.value,
                                        packagingCost.value, shippingCost.value,
                                        form.tax_enabled)]
    /\ UNCHANGED dbVars
    /\ OtherVarsUnchanged

\* lines 656-669 once the loop of calculateQuoteSnapshot is over
SaveSerialize(r, acc) ==
    LET calc == SnapshotFinish(acc, save[r].global)
        totalsJSON == MarshalTotals(calc.Totals)
        breakdownJSON == MarshalBreakdown(calc.Breakdown)
    IN  IF totalsJSON.err \/ breakdownJSON.err
        THEN Finished("failed", "serialization", 0)
        ELSE [save[r] EXCEPT !.pc = "begin", !.breakdown = calc.Breakdown,
                             !.totalsJSON = totalsJSON.text,
                             !.breakdownJSON = breakdownJSON.text]

\* calculateQuoteSnapshot: the SELECT for item idx and the loop body; after
\* the last item the batch figures, the total and the two json.Marshal calls
SaveLookupMaterial(r) ==
    /\ save[r].pc = "calc"
    /\ LET item == save[r].items[save[r].idx]
       IN  IF ~HasActiveMaterial(materials, item.MaterialID)
           THEN save' = [save EXCEPT ![r] = Finished("failed", "material", 0)]
           ELSE LET acc == SnapshotLine(save[r].breakdown, item,
                                        materials[item.MaterialID].cost_per_kg,
                                        save[r].global)
                IN  IF save[r].idx < Len(save[r].items)
                    THEN save' = [save EXCEPT ![r].breakdown = acc,
                                              ![r].idx = save[r].idx + 1]
                    ELSE save' = [save EXCEPT ![r] = SaveSerialize(r, acc)]
    /\ UNCHANGED dbVars
    /\ OtherVarsUnchanged

\* created_at DEFAULT CURRENT_TIMESTAMP: the clock never runs backwards, and
\* two inserts can fall in the same second
CreatedAtChoices == { Max({ quotes[id].created_at : id \in DOMAIN quotes }),
                      Max({ quotes[id].created_at : id \in DOMAIN quotes }) + 1 }

\* the header inserted through s.db instead of the transaction: it is
\* committed on its own, before any line item
SaveInsertHeaderAutocommit(r, createdAt) ==
    /\ save[r].pc = "begin"
    /\ writer = NoWriter
    /\ writer' = r
    /\ LET id == sqlite_sequence.quotes + 1
           row == [created_at |-> createdAt,
                   title |-> nullableString(TrimSpace(save[r].form.title)),
                   notes |-> nullableString(TrimSpace(save[r].form.notes)),
                   waste_percent |-> save[r].global.WastePercent,
                   margin_percent |-> save[r].global.MarginPercent,
                   tax_enabled |-> save[r].global.TaxEnabled,
                   tax_percent_snapshot |-> save[r].global.TaxPercent,
                   totals_json |-> save[r].totalsJSON,
                   breakdown_json |-> save[r].breakdownJSON]
       IN  /\ quotes' = Merge(quotes, [i \in {id} |-> row])
           /\ sqlite_sequence' = [sqlite_sequence EXCEPT !.quotes = id]
           /\ save' = [save EXCEPT ![r].pc = "lastid", ![r].quoteID = id]
    /\ UNCHANGED <<materials, rate_config, quote_items>>
    /\ OtherVarsUnchanged

\* the header storing as tax_percent_snapshot the tax percentage of
\* rate_config at the time of the INSERT
SaveInsertHeaderCurrentRates(r, createdAt) ==
    /\ save[r].pc = "begin"
    /\ writer = NoWriter
    /\ writer' = r
    /\ LET id == sqlite_sequence.quotes + 1
           row == [created_at |-> createdAt,
                   title |-> nullableString(TrimSpace(save[r].form.title)),
                   notes |-> nullableString(TrimSpace(save[r].form.notes)),
                   waste_percent |-> save[r].global.WastePercent,
                   margin_percent |-> save[r].global.MarginPercent,
                   tax_enabled |-> save[r].global.TaxEnabled,
                   tax_percent_snapshot |-> rate_config[1].TaxPercent,
                   totals_json |-> save[r].totalsJSON,
                   breakdown_json |-> save[r].breakdownJSON]
       IN  save' = [save EXCEPT ![r].pc = "lastid",
                                ![r].quoteID = id,
                                ![r].tx = [quotes |-> [i \in {id} |-> row],
                                           quote_items |-> EmptyTable]]
    /\ UNCHANGED <<materials, rate_config, quotes, quote_items, sqlite_sequence>>
    /\ OtherVarsUnchanged

\* lines 671-688: s.db.Begin and the INSERT INTO quotes, which takes the
\* write lock and lands in the transaction's buffer
SaveInsertHeader(r, createdAt) ==
    /\ save[r].pc = "begin"
    /\ writer = NoWriter
    /\ writer' = r
    /\ LET id == sqlite_sequence.quotes + 1
           row == [created_at |-> createdAt,
                   title |-> nullableString(TrimSpace(save[r].form.title)),
                   notes |-> nullableString(TrimSpace(save[r].form.notes)),
                   waste_percent |-> save[r].global.WastePercent,
                   margin_percent |-> save[r].global.MarginPercent,
                   tax_enabled |-> save[r].global.TaxEnabled,
                   tax_percent_snapshot |-> save[r].global.TaxPercent,
                   totals_json |-> save[r].totalsJSON,
                   breakdown_json |-> save[r].breakdownJSON]
       IN  save' = [save EXCEPT ![r].pc = "lastid",
                                ![r].quoteID = id,
                                ![r].tx = [quotes |-> [i \in {id} |-> row],
                                           quote_items |-> EmptyTable]]
    /\ UNCHANGED <<materials, rate_config, quotes, quote_items, sqlite_sequence>>
    /\ OtherVarsUnchanged

\* line 695: result.LastInsertId()
SaveLastInsertId(r) ==
    /\ save[r].pc = "lastid"
    /\ save' = [save EXCEPT ![r].pc = "items", ![r].idx = 1]
    /\ UNCHANGED dbVars
    /\ OtherVarsUnchanged

\* lines 702-712: the INSERT INTO quote_items for item idx
SaveInsertItem(r) ==
    /\ save[r].pc = "items"
    /\ LET item == save[r].items[save[r].idx]
           id == sqlite_sequence.quote_items + Cardinality(DOMAIN save[r].tx.quote_items) + 1
           row == [quote_id |-> save[r].quoteID, material_id |-> item.MaterialID,
                   grams |-> item.Grams, print_minutes |-> item.PrintMinutes,
                   labor_minutes |-> item.LaborMinutes, quantity |-> item.Quantity]
       IN  save' = [save EXCEPT
                      ![r].tx.quote_items = Merge(@, [i \in {id} |-> row]),
                      ![r].idx = save[r].idx + 1,
                      ![r].pc = IF save[r].idx < Len(save[r].items) THEN "items" ELSE "commit"]
    /\ UNCHANGED dbVars
    /\ OtherVarsUnchanged

\* a commit that writes its rows over the tables instead of adding them
SaveCommitReplaces(r) ==
    /\ save[r].pc = "commit"
    /\ writer = r
    /\ quotes' = save[r].tx.quotes
    /\ quote_items' = save[r].tx.quote_items
    /\ sqlite_sequence' = [quotes |-> Max(DOMAIN quotes \cup DOMAIN quotes'),
                           quote_items |-> Max(DOMAIN quote_items \cup DOMAIN quote_items')]
    /\ writer' = NoWriter
    /\ save' = [save EXCEPT ![r] = Finished("done", "none", save[r].quoteID)]
    /\ UNCHANGED <<materials, rate_config>>
    /\ OtherVarsUnchanged

\* lines 714-719: tx.Commit publishes the header and its items together
SaveCommit(r) ==
    /\ save[r].pc = "commit"
    /\ writer = r
    /\ quotes' = Merge(quotes, save[r].tx.quotes)
    /\ quote_items' = Merge(quote_items, save[r].tx.quote_items)
    /\ sqlite_sequence' = [quotes |-> Max(DOMAIN quotes'),
                           quote_items |-> Max(DOMAIN quote_items')]
    /\ writer' = NoWriter
    /\ save' = [save EXCEPT ![r] = Finished("done", "none", save[r].quoteID)]
    /\ UNCHANGED <<materials, rate_config>>
    /\ OtherVarsUnchanged

\* a handler that commits what the transaction holds when a call fails
SaveDBErrorCommits(r) ==
    /\ save[r].pc \in {"idle", "rates", "calc", "begin", "lastid", "items", "commit"}
    /\ save' = [save EXCEPT ![r] = Finished("failed", save[r].pc, 0)]
    /\ writer' = IF writer = r THEN NoWriter ELSE writer
    /\ quotes' = Merge(quotes, save[r].tx.quotes)
    /\ quote_items' = Merge(quote_items, save[r].tx.quote_items)
    /\ sqlite_sequence' = [quotes |-> Max(DOMAIN quotes' \cup {0}),
                           quote_items |-> Max(DOMAIN quote_items' \cup {0})]
    /\ UNCHANGED <<materials, rate_config>>
    /\ OtherVarsUnchanged

\* a database call of the request returns an error (I/O error, SQLITE_BUSY
\* after busy_timeout, ...): the handler rolls back what it began and answers
\* with an error.  A COMMIT that fails leaves nothing committed.
SaveDBError(r) ==
    /\ save[r].pc \in {"idle", "rates", "calc", "begin", "lastid", "items", "commit"}
    /\ save' = [save EXCEPT ![r] = Finished("failed", save[r].pc, 0)]
    /\ writer' = IF writer = r THEN NoWriter ELSE writer
    /\ UNCHANGED <<materials, rate_config, quotes, quote_items, sqlite_sequence>>
    /\ OtherVarsUnchanged

(***************************************************************************)
(* Admin operations                                                        *)
(***************************************************************************)
parseRateConfigForm(form) ==
    LET machineHourlyRate == parseNonNegativeFloat(form.machine_hourly_rate)
        laborPerMinute == parseNonNegativeFloat(form.labor_per_minute)
        overheadFixed == parseNonNegativeFloat(form.overhead_fixed)
        overheadPercent == parsePercent(form.overhead_percent)
        failureRatePercent == parsePercent(form.failure_rate_percent)
        taxPercent == parsePercent(form.tax_percent)
    IN  [err |-> \/ machineHourlyRate.err \/ laborPerMinute.err \/ overheadFixed.err
                 \/ overheadPercent.err \/ failureRatePercent.err \/ taxPercent.err,
         rates |-> [MachineHourlyRate |-> machineHourlyRate.value,
                    LaborPerMinute |-> laborPerMinute.value,
                    OverheadFixed |-> overheadFixed.value,
                    OverheadPercent |-> overheadPercent.value,
                    FailureRatePercent |-> failureRatePercent.value,
                    TaxPercent |-> taxPercent.value]]

\* handleAdminRatesSubmit: a form that does not validate changes nothing
AdminRatesSubmit(form) ==
    /\ writer = NoWriter
    /\ rate_config' = IF parseRateConfigForm(form).err THEN rate_config
                      ELSE updateRateConfig(rate_config, parseRateConfigForm(form).rates)
    /\ UNCHANGED <<materials, quotes, quote_items, sqlite_sequence, writer, save>>
    /\ OtherVarsUnchanged

\* handleAdminMaterialsCreate: INSERT INTO materials ... VALUES (?, ?, ?, TRUE)
AdminMaterialsCreate(name, rawCost) ==
    /\ writer = NoWriter
    /\ materials' = IF name = "" \/ parsePositiveFloat(rawCost).err THEN materials
                    ELSE Merge(materials,
                               [id \in {Max(DOMAIN materials) + 1} |->
                                   [name |-> name,
                                    cost_per_kg |-> parsePositiveFloat(rawCost).value,
                                    active |-> TRUE]])
    /\ UNCHANGED <<rate_config, quotes, quote_items, sqlite_sequence, writer, save>>
    /\ OtherVarsUnchanged

\* handleAdminMaterialsUpdate: UPDATE materials SET ... WHERE id = ?
AdminMaterialsUpdate(id, name, rawCost, active) ==
    /\ writer = NoWriter
    /\ materials' = IF \/ id <= 0 \/ name = "" \/ parsePositiveFloat(rawCost).err
                       \/ id \notin DOMAIN materials
                    THEN materials
                    ELSE [materials EXCEPT ![id] =
                             [name |-> name,
                              cost_per_kg |-> parsePositiveFloat(rawCost).value,
                              active |-> active]]
    /\ UNCHANGED <<rate_config, quotes, quote_items, sqlite_sequence, writer, save>>
    /\ OtherVarsUnchanged

(***************************************************************************)
(* Reading quotes (unnamed/part_001)                                       *)
(***************************************************************************)
NoItem == [MaterialName |-> "", Grams |-> F(0), PrintMinutes |-> F(0),
           LaborMinutes |-> F(0), Quantity |-> F(0)]

NoDetail ==
    [err |-> TRUE, ID |-> 0, CreatedAt |-> 0, Title |-> <<>>, Notes |-> <<>>,
     WastePercent |-> F(0), MarginPercent |-> F(0), TaxEnabled |-> FALSE,
     TaxPercent |-> F(0), Item |-> NoItem, Breakdown |-> ZeroBreakdown,
     Totals |-> [Total |-> F(0)]]

\* LEFT JOIN quote_items ... LEFT JOIN materials ... ORDER BY qi.id ASC LIMIT 1
FirstItemOf(quoteID) ==
    LET ids == { i \in DOMAIN quote_items : quote_items[i].quote_id = quoteID }
    IN  IF ids = {} THEN NoItem
        ELSE LET qi == quote_items[Min(ids)]
             IN  [MaterialName |-> IF qi.material_id \in DOMAIN materials
                                   THEN materials[qi.material_id].name ELSE "",
                  Grams |-> qi.grams, PrintMinutes |-> qi.print_minutes,
                  LaborMinutes |-> qi.labor_minutes, Quantity |-> F(qi.quantity)]

\* a detail view that prices the stored line items again with the rates and
\* material costs of the moment
getQuoteDetailRecalculated(quoteID) ==
    IF quoteID \notin DOMAIN quotes THEN {NoDetail}
    ELSE LET ids == { i \in DOMAIN quote_items : quote_items[i].quote_id = quoteID }
             row == [n \in 1..Cardinality(ids) |->
                        quote_items[CHOOSE x \in ids :
                                       Cardinality({ y \in ids : y < x }) = n - 1]]
             items == [n \in 1..Cardinality(ids) |->
                          [MaterialID |-> row[n].material_id, Grams |-> row[n].grams,
                           PrintMinutes |-> row[n].print_minutes,
                           LaborMinutes |-> row[n].labor_minutes,
                           Quantity |-> row[n].quantity]]
         IN  { LET calc == calculateQuoteSnapshot(items,
                              SaveGlobal(rate_config[1], quotes[quoteID].waste_percent,
                                         quotes[quoteID].margin_percent, b.PackagingCost,
                                         b.ShippingCost, quotes[quoteID].tax_enabled),
                              materials)
               IN  IF calc.err THEN NoDetail
                   ELSE [err |-> FALSE, ID |-> quoteID,
                         CreatedAt |-> quotes[quoteID].created_at,
                         Title |-> Coalesce(quotes[quoteID].title),
                         Notes |-> Coalesce(quotes[quoteID].notes),
                         WastePercent |-> quotes[quoteID].waste_percent,
                         MarginPercent |-> quotes[quoteID].margin_percent,
                         TaxEnabled |-> quotes[quoteID].tax_enabled,
                         TaxPercent |-> quotes[quoteID].tax_percent_snapshot,
                         Item |-> FirstItemOf(quoteID),
                         Breakdown |-> calc.Breakdown,
                         Totals |-> calc.Totals]
               : b \in extractBreakdownFromJSON(quotes[quoteID].breakdown_json) }

\* a detail view that gives up on a snapshot it cannot decode
getQuoteDetailStrict(quoteID) ==
    IF quoteID \notin DOMAIN quotes THEN {NoDetail}
    ELSE IF ~quotes[quoteID].breakdown_json.valid \/ ~quotes[quoteID].totals_json.valid
         THEN {NoDetail}
    ELSE { [err |-> FALSE, ID |-> quoteID,
            CreatedAt |-> quotes[quoteID].created_at,
            Title |-> Coalesce(quotes[quoteID].title),
            Notes |-> Coalesce(quotes[quoteID].notes),
            WastePercent |-> quotes[quoteID].waste_percent,
            MarginPercent |-> quotes[quoteID].margin_percent,
            TaxEnabled |-> quotes[quoteID].tax_enabled,
            TaxPercent |-> quotes[quoteID].tax_percent_snapshot,
            Item |-> FirstItemOf(quoteID),
            Breakdown |-> b,
            Totals |-> [Total |-> extractTotalFromJSON(quotes[quoteID].totals_json)]]
           : b \in extractBreakdownFromJSON(quotes[quoteID].breakdown_json) }

\* the results getQuoteDetail can return for quoteID (one per Breakdown the
\* reader can decode); sql.ErrNoRows when there is no such quote
getQuoteDetail(quoteID) ==
    IF quoteID \notin DOMAIN quotes THEN {NoDetail}
    ELSE { [err |-> FALSE, ID |-> quoteID,
            CreatedAt |-> quotes[quoteID].created_at,
            Title |-> Coalesce(quotes[quoteID].title),
            Notes |-> Coalesce(quotes[quoteID].notes),
            WastePercent |-> quotes[quoteID].waste_percent,
            MarginPercent |-> quotes[quoteID].margin_percent,
            TaxEnabled |-> quotes[quoteID].tax_enabled,
            TaxPercent |-> quotes[quoteID].tax_percent_snapshot,
            Item |-> FirstItemOf(quoteID),
            Breakdown |-> b,
            Totals |-> [Total |-> extractTotalFromJSON(quotes[quoteID].totals_json)]]
           : b \in extractBreakdownFromJSON(quotes[quoteID].breakdown_json) }

\* a LIKE that tells upper case from lower case
RECURSIVE LikeCaseSensitive(_, _)
LikeCaseSensitive(str, pattern) ==
    IF pattern = <<>> THEN str = <<>>
    ELSE IF Head(pattern) = "%"
         THEN LikeCaseSensitive(str, Tail(pattern))
              \/ (str # <<>> /\ LikeCaseSensitive(Tail(str), pattern))
    ELSE /\ str # <<>>
         /\ Head(pattern) = "_" \/ Head(pattern) = Head(str)
         /\ LikeCaseSensitive(Tail(str), Tail(pattern))

\* SQLite's LIKE: % matches any run of characters, _ any one character,
\* letters match without regard to ASCII case
RECURSIVE Like(_, _)
Like(str, pattern) ==
    IF pattern = <<>> THEN str = <<>>
    ELSE IF Head(pattern) = "%"
         THEN Like(str, Tail(pattern)) \/ (str # <<>> /\ Like(Tail(str), pattern))
    ELSE /\ str # <<>>
         /\ Head(pattern) = "_" \/ ToLowerChar(Head(pattern)) = ToLowerChar(Head(str))
         /\ Like(Tail(str), Tail(pattern))

\* WHERE (? = '' OR COALESCE(title, '') LIKE ? OR COALESCE(notes, '') LIKE ?)
Selected(query) ==
    LET search == <<"%">> \o query \o <<"%">>
    IN  { id \in DOMAIN quotes :
            \/ query = <<>>
            \/ Like(Coalesce(quotes[id].title), search)
            \/ Like(Coalesce(quotes[id].notes), search) }

\* ORDER BY id DESC alone
RECURSIVE OrderedByIdDesc(_)
OrderedByIdDesc(ids) ==
    IF ids = {} THEN <<>>
    ELSE <<Max(ids)>> \o OrderedByIdDesc(ids \ {Max(ids)})

\* ORDER BY datetime(created_at) DESC, id DESC
RECURSIVE OrderedDesc(_)
OrderedDesc(ids) ==
    IF ids = {} THEN <<>>
    ELSE LET first == CHOOSE x \in ids : \A y \in ids \ {x} :
                         \/ quotes[x].created_at > quotes[y].created_at
                         \/ quotes[x].created_at = quotes[y].created_at /\ x > y
         IN  <<first>> \o OrderedDesc(ids \ {first})

listQuotes(query) ==
    LET ids == OrderedDesc(Selected(query))
    IN  [i \in 1..Len(ids) |->
            [ID |-> ids[i], CreatedAt |-> quotes[ids[i]].created_at,
             Title |-> Coalesce(quotes[ids[i]].title),
             Total |-> extractTotalFromJSON(quotes[ids[i]].totals_json)]]

NothingRead == [kind |-> "none", query |-> <<>>, detail |-> NoDetail, list |-> <<>>]

\* handleQuoteDetail / handleQuoteText: getQuoteDetail(quoteID)
GetQuoteDetail(quoteID) ==
    /\ \E d \in getQuoteDetail(quoteID) :
          lastRead' = [kind |-> "detail", query |-> <<>>, detail |-> d, list |-> <<>>]
    /\ UNCHANGED <<startupVars, calcForm, calcItem, calcExtra, calcGlobal, calcResult, snapResult, snapDocs,
                   snapRead, materials, rate_config, quotes, quote_items,
                   sqlite_sequence, writer, save>>

\* handleQuotesList: listQuotes(strings.TrimSpace(q))
ListQuotes(query) ==
    /\ lastRead' = [kind |-> "list", query |-> TrimSpace(query), detail |-> NoDetail,
                    list |-> listQuotes(TrimSpace(query))]
    /\ UNCHANGED <<startupVars, calcForm, calcItem, calcExtra, calcGlobal, calcResult, snapResult, snapDocs,
                   snapRead, materials, rate_config, quotes, quote_items,
                   sqlite_sequence, writer, save>>

RECURSIVE SeqsUpTo(_, _)
SeqsUpTo(S, n) ==
    IF n = 0 THEN {<<>>}
    ELSE SeqsUpTo(S, n - 1) \cup { Append(q, x) : q \in { r \in SeqsUpTo(S, n - 1) : Len(r) = n - 1 }, x \in S }

(***************************************************************************)
(* The server: requests, admin operations and reads on bounded inputs       *)
(***************************************************************************)
MaxItems == 2

MaxMaterials == 2

RawItemA == [material_id |-> RawInt(1), grams |-> RawInt(500), print_minutes |-> RawInt(30),
             labor_minutes |-> RawInt(10), quantity |-> RawInt(1)]

RawItemB == [material_id |-> RawInt(2), grams |-> RawInt(1000), print_minutes |-> RawInt(60),
             labor_minutes |-> RawInt(0), quantity |-> RawInt(2)]

\* the form a browser posts for the given line items
FormOf(items, wastePercent) ==
    [material_id |-> [i \in 1..Len(items) |-> items[i].material_id],
     grams |-> [i \in 1..Len(items) |-> items[i].grams],
     print_minutes |-> [i \in 1..Len(items) |-> items[i].print_minutes],
     labor_minutes |-> [i \in 1..Len(items) |-> items[i].labor_minutes],
     quantity |-> [i \in 1..Len(items) |-> items[i].quantity],
     waste_percent |-> wastePercent, margin_percent |-> RawInt(25),
     packaging_cost |-> RawInt(5), shipping_cost |-> RawInt(8), tax_enabled |-> TRUE,
     title |-> <<>>, notes |-> <<>>]

\* the line items posted: none, one of either kind, and A, B, A, ... up to
\* MaxItems
SaveItemLists ==
    {<<>>, <<RawItemB>>}
    \cup { [i \in 1..n |-> IF i % 2 = 1 THEN RawItemA ELSE RawItemB] : n \in 1..MaxItems }

\* no line item at all does not validate; "NaN" validates as a percentage
\* (no comparison with NaN is true) and cannot be serialized
SaveForms == { FormOf(items, RawInt(50)) : items \in SaveItemLists }
             \cup { FormOf(<<RawItemA>>, RawNum(NaN)) }

RateFormA ==
    [machine_hourly_rate |-> RawInt(60), labor_per_minute |-> RawNum(Q(1, 2)),
     overhead_fixed |-> RawInt(10), overhead_percent |-> RawInt(25),
     failure_rate_percent |-> RawInt(25), tax_percent |-> RawInt(25)]

RateForms == {RateFormA, [RateFormA EXCEPT !.tax_percent = RawInt(150)]}

MaterialCosts == {RawInt(40)}

\* the server after startup (ensureRateConfig has run) and after the admin
\* created a first material
ServerInit ==
    /\ materials = [id \in {1} |-> [name |-> "PLA", cost_per_kg |-> F(20), active |-> TRUE]]
    /\ rate_config = [id \in {1} |-> DefaultRateConfig]
    /\ quotes = EmptyTable
    /\ quote_items = EmptyTable
    /\ sqlite_sequence = [quotes |-> 0, quote_items |-> 0]
    /\ writer = NoWriter
    /\ save = [r \in Savers |-> IdleSave]
    /\ lastRead = NothingRead

\* seed.Config
NoConfig == [AdminEmail |-> "", AdminPassword |-> ""]

NoSeedTx ==
    [users |-> EmptyTable, materials |-> EmptyTable, rate_config |-> EmptyTable,
     packaging_rates |-> EmptyTable, shipping_rates |-> EmptyTable]

\* seed.Run before its first call: the Stats and error of the last call
\* (returned), the number of calls that returned (runs) and of those that
\* returned no error (succeeded)
NoSeedRun ==
    [pc |-> "idle", cfg |-> NoConfig, tx |-> NoSeedTx, stats |-> [Inserts |-> 0],
     runs |-> 0, succeeded |-> 0, returned |-> [err |-> FALSE, Inserts |-> 0]]

\* validateCredentials before its first call
NoLogin == [called |-> FALSE, email |-> "", password |-> <<>>, found |-> FALSE, ok |-> FALSE]

\* getRateConfig before its first call
NoRates == [pc |-> "idle", called |-> FALSE, err |-> FALSE, rc |-> DefaultRateConfig]

\* main after startup: the router serves requests
Serving == [pc |-> "serving", login |-> NoLogin, rates |-> NoRates]

\* the variables of startup, unused by the server once it runs
StartupParked ==
    /\ main = Serving
    /\ users = EmptyTable
    /\ packaging_rates = EmptyTable
    /\ shipping_rates = EmptyTable
    /\ seedRun = NoSeedRun
    /\ environ = [k \in {} |-> <<>>]
    /\ dotenv = [exists |-> FALSE, lines |-> <<>>, loaded |-> FALSE]

\* the variables of the pricing harness, unused by the server
CalcParked ==
    /\ StartupParked
    /\ calcForm = NoCalcForm
    /\ calcItem = [Grams |-> F(0), PrintMinutes |-> F(0), LaborMinutes |-> F(0),
                   Quantity |-> F(0), CostPerKg |-> F(0)]
    /\ calcExtra = <<>>
    /\ calcGlobal = ZeroGlobal
    /\ calcResult = [done |-> FALSE, err |-> FALSE, Breakdown |-> ZeroBreakdown,
                     Totals |-> [Total |-> F(0)]]
    /\ snapResult = calcResult
    /\ snapDocs = [done |-> FALSE, err |-> FALSE, breakdownJSON |-> Malformed,
                   totalsJSON |-> Malformed]
    /\ snapRead = [done |-> FALSE, Breakdown |-> ZeroBreakdown, Total |-> F(0)]

Init == ServerInit /\ CalcParked

QuoteSave(r) ==
    \/ \E form \in SaveForms : SaveEnsureRates(r, form)
    \/ SaveReadRates(r)
    \/ SaveLookupMaterial(r)
    \/ \E createdAt \in CreatedAtChoices : SaveInsertHeader(r, createdAt)
    \/ SaveLastInsertId(r)
    \/ SaveInsertItem(r)
    \/ SaveCommit(r)
    \/ SaveDBError(r)

RatesSubmit == \E form \in RateForms : AdminRatesSubmit(form)

MaterialsCreate ==
    /\ Cardinality(DOMAIN materials) < MaxMaterials
    /\ \E cost \in {RawInt(40), RawInt(0)} : AdminMaterialsCreate("PETG", cost)

\* the names the admin page gives a material: an update can rename the first
\* one
MaterialNames(id) == IF id = 1 THEN {"PLA", "PLA+"} ELSE {"PETG"}

MaterialsUpdate ==
    \E id \in 1..MaxMaterials, cost \in MaterialCosts, active \in BOOLEAN :
        \E name \in MaterialNames(id) : AdminMaterialsUpdate(id, name, cost, active)

QuoteDetail == \E quoteID \in 1..(Cardinality(Savers) + 1) : GetQuoteDetail(quoteID)

QuotesList == ListQuotes(<<>>)

Next ==
    \/ \E r \in Savers : QuoteSave(r)
    \/ RatesSubmit
    \/ MaterialsCreate

Spec == Init /\ [][Next]_vars

(***************************************************************************)
(* One quote saved, then read while the admin changes rates and materials  *)
(***************************************************************************)
AdminNext ==
    \/ QuoteSave(1)
    \/ RatesSubmit
    \/ MaterialsCreate
    \/ MaterialsUpdate
    \/ QuoteDetail
    \/ QuotesList

SpecAdmin == Init /\ [][AdminNext]_vars

(***************************************************************************)
(* Reading quotes whose snapshots were not written by this version          *)
(***************************************************************************)
MaxMembers == 2

Num(x) == JNum(FormatFloat(x))

\* members found in breakdown documents: canonical and legacy names, other
\* spellings, the breakdown_ form, nested objects, values that are no numbers
BreakdownMembers ==
    { Member(KeyMaterialCost, Num(F(1))),
      Member(KeyMaterial, Num(F(2))),
      Member(<<"M","a","t","e","r","i","a","l","-","C","o","s","t">>, Num(F(3))),
      Member(BreakdownPrefix \o KeyMaterialCost, Num(F(4))),
      Member(KeyMaterialCost, JStr),
      Member(KeyTax, Num(Q(5, 2))),
      Member(<<"T","A","X">>, Num(F(6))),
      Member(KeyTax, JNull),
      Member(<<"b","r","e","a","k","d","o","w","n">>, JObj(<<Member(KeyTax, Num(F(7))), Member(KeyMaterial, Num(F(8)))>>)),
      Member(KeyMaterial, JObj(<<Member(<<"c","o","s","t">>, Num(F(9)))>>)),
      Member(KeyShipping, Num(F(3))),
      Member(<<"c","u","r","r","e","n","c","y">>, JStr) }

\* members found in totals documents
TotalsMembers ==
    { Member(KeyTotal, Num(F(5))),
      Member(KeyGrandTotal, Num(F(6))),
      Member(KeyFinalTotal, Num(F(7))),
      Member(<<"T","o","t","a","l">>, Num(F(8))),
      Member(<<"g","r","a","n","d","-","t","o","t","a","l">>, Num(F(9))),
      Member(KeySubtotal, Num(F(4))),
      Member(<<"c","u","r","r","e","n","c","y">>, JStr),
      Member(<<"i","t","e","m","s">>, JObj(<<Member(<<"c","o","u","n","t">>, Num(F(2)))>>)) }

\* JSON objects of up to MaxMembers of the given members, no key twice;
\* text that is no JSON; JSON that is no object
DocsOf(members) ==
    { JSONText(JObj(ms)) : ms \in { q \in SeqsUpTo(members, MaxMembers) :
                                      \A i, j \in 1..Len(q) : i # j => q[i].k # q[j].k } }
    \cup {Malformed, JSONText(JStr), JSONText(JNull), JSONText(Num(F(5)))}

LegacyBreakdown == JSONText(JObj(<<Member(KeyMaterial, Num(F(1))), Member(KeyMachine, Num(F(2))),
                                   Member(KeyLabor, Num(F(3)))>>))

LegacyTotals == JSONText(JObj(<<Member(KeyGrandTotal, Num(Q(1999, 2)))>>))

LegacyDocs ==
    { <<b, LegacyTotals>> : b \in DocsOf(BreakdownMembers) }
    \cup { <<LegacyBreakdown, t>> : t \in DocsOf(TotalsMembers) }
    \cup { <<Malformed, Malformed>> }

LegacyQuote(docs) ==
    [created_at |-> 1, title |-> nullableString(<<>>), notes |-> nullableString(<<>>),
     waste_percent |-> F(0), margin_percent |-> F(0), tax_enabled |-> FALSE,
     tax_percent_snapshot |-> F(0), totals_json |-> docs[2], breakdown_json |-> docs[1]]

ReaderInit ==
    /\ materials = [id \in {1} |-> [name |-> "PLA", cost_per_kg |-> F(20), active |-> TRUE]]
    /\ rate_config = [id \in {1} |-> DefaultRateConfig]
    /\ \E docs \in LegacyDocs : quotes = [id \in {1} |-> LegacyQuote(docs)]
    /\ quote_items = [id \in {1} |-> [quote_id |-> 1, material_id |-> 1, grams |-> F(500),
                                      print_minutes |-> F(30), labor_minutes |-> F(10),
                                      quantity |-> 1]]
    /\ sqlite_sequence = [quotes |-> 1, quote_items |-> 1]
    /\ writer = NoWriter
    /\ save = [r \in Savers |-> IdleSave]
    /\ lastRead = NothingRead
    /\ CalcParked

ReaderNext == QuoteDetail \/ QuotesList

SpecReader == ReaderInit /\ [][ReaderNext]_vars

(***************************************************************************)
(* Listing and searching stored quotes                                     *)
(***************************************************************************)
MaxQuotes == 2

Text(s) == [null |-> FALSE, s |-> s]

Titles == {NullString, Text(<<"C","a","s","a">>), Text(<<"a","%","b">>)}

Notes == {NullString, Text(<<"m","i"," ","c","a","s","a">>), Text(<<"a","_","b">>)}

SearchTerms == {<<>>, <<" ">>, <<"c","a","s","a">>, <<"C","a","s","a">>, <<"A">>, <<"%">>, <<"_">>, <<"a","_","b">>, <<"x">>}

\* the row the n-th INSERT INTO quotes leaves: created_at is given by the
\* caller, as seedQuote does, so ids and dates can be in different orders
ListedQuote(id, createdAt, title, notes) ==
    [created_at |-> createdAt, title |-> title, notes |-> notes,
     waste_percent |-> F(0), margin_percent |-> F(0), tax_enabled |-> FALSE,
     tax_percent_snapshot |-> F(0),
     totals_json |-> JSONText(JObj(<<Member(KeyTotal, Num(F(100 * id)))>>)),
     breakdown_json |-> LegacyBreakdown]

QuoteTables ==
    UNION { { [id \in 1..n |-> ListedQuote(id, c[id], t[id], o[id])] :
                c \in [1..n -> 1..2], t \in [1..n -> Titles], o \in [1..n -> Notes] }
            : n \in 1..MaxQuotes }

ListInit ==
    /\ materials = [id \in {1} |-> [name |-> "PLA", cost_per_kg |-> F(20), active |-> TRUE]]
    /\ rate_config = [id \in {1} |-> DefaultRateConfig]
    /\ quotes \in QuoteTables
    /\ quote_items = [id \in DOMAIN quotes |->
                         [quote_id |-> id, material_id |-> 1, grams |-> F(500),
                          print_minutes |-> F(30), labor_minutes |-> F(10), quantity |-> 1]]
    /\ sqlite_sequence = [quotes |-> Cardinality(DOMAIN quotes),
                          quote_items |-> Cardinality(DOMAIN quotes)]
    /\ writer = NoWriter
    /\ save = [r \in Savers |-> IdleSave]
    /\ lastRead = NothingRead
    /\ CalcParked

QuotesSearch == \E query \in SearchTerms : ListQuotes(query)

ListNext == QuotesSearch

SpecList == ListInit /\ [][ListNext]_vars

(***************************************************************************)
(* The pricing computation on bounded inputs: Calculate and                 *)
(* calculateQuoteSnapshot applied to the same item and global parameters,   *)
(* the snapshot marshalled and read back.                                   *)
(***************************************************************************)
MaxExtraItems == 1

GramsValues == {F(-500), F(500), F(1000), NaN}

QuantityValues == {F(0), F(1), F(3), Q(1, 2)}

PercentValues == {F(0), F(25)}

CalcItems ==
    [Grams : GramsValues, PrintMinutes : {F(30)}, LaborMinutes : {F(10)},
     Quantity : QuantityValues, CostPerKg : {F(20)}]

CalcGlobals ==
    [MachineHourlyRate : {F(60)}, LaborPerMinute : {Q(1, 2)},
     OverheadFixed : {F(0), F(10)}, OverheadPercent : PercentValues,
     FailureRatePercent : {F(25)}, WastePercent : PercentValues,
     MarginPercent : PercentValues, TaxEnabled : BOOLEAN, TaxPercent : PercentValues,
     PackagingCost : {F(0), F(5)}, ShippingCost : {F(8)}]

\* further line items of the quote: material 2 is active, material 3 is not
ExtraItems ==
    [MaterialID : {2, 3}, Grams : {F(1000)}, PrintMinutes : {F(60)},
     LaborMinutes : {F(0)}, Quantity : {2}]

\* the materials table the snapshot computation reads: material 1 costs what
\* Calculate is given as CostPerKg
CalcMaterials ==
    [id \in {1, 2, 3} |->
        CASE id = 1 -> [cost_per_kg |-> calcItem.CostPerKg, active |-> TRUE]
          [] id = 2 -> [cost_per_kg |-> F(40), active |-> TRUE]
          [] OTHER -> [cost_per_kg |-> F(40), active |-> FALSE]]

\* the quoteItemInput rows for calcItem (an int quantity) and calcExtra
CalcQuoteItems ==
    <<[MaterialID |-> 1, Grams |-> calcItem.Grams, PrintMinutes |-> calcItem.PrintMinutes,
       LaborMinutes |-> calcItem.LaborMinutes, Quantity |-> calcItem.Quantity.n]>>
    \o calcExtra

NoResult == [done |-> FALSE, err |-> FALSE, Breakdown |-> ZeroBreakdown,
             Totals |-> [Total |-> F(0)]]

NoDocs == [done |-> FALSE, err |-> FALSE, breakdownJSON |-> Malformed, totalsJSON |-> Malformed]

NoRead == [done |-> FALSE, Breakdown |-> ZeroBreakdown, Total |-> F(0)]

CalcIdle ==
    /\ calcResult = NoResult
    /\ snapResult = NoResult
    /\ snapDocs = NoDocs
    /\ snapRead = NoRead

CalcInit ==
    /\ StartupParked
    /\ calcForm = NoCalcForm
    /\ calcItem \in CalcItems
    /\ calcExtra \in SeqsUpTo(ExtraItems, MaxExtraItems)
    /\ calcGlobal \in CalcGlobals
    /\ CalcIdle
    /\ ServerInit

RunCalculate ==
    /\ ~calcResult.done
    /\ calcResult' = [done |-> TRUE, err |-> FALSE,
                      Breakdown |-> Calculate(calcItem, calcGlobal).Breakdown,
                      Totals |-> Calculate(calcItem, calcGlobal).Totals]
    /\ UNCHANGED <<startupVars, calcForm, calcItem, calcExtra, calcGlobal, snapResult, snapDocs, snapRead>>
    /\ UNCHANGED serverVars

\* quoteItemInput.Quantity is an int: the snapshot path takes whole quantities
RunSnapshot ==
    /\ ~snapResult.done
    /\ ~calcItem.Quantity.nan /\ calcItem.Quantity.d = 1
    /\ LET r == calculateQuoteSnapshot(CalcQuoteItems, calcGlobal, CalcMaterials)
       IN  snapResult' = [done |-> TRUE, err |-> r.err, Breakdown |-> r.Breakdown,
                          Totals |-> r.Totals]
    /\ UNCHANGED <<startupVars, calcForm, calcItem, calcExtra, calcGlobal, calcResult, snapDocs, snapRead>>
    /\ UNCHANGED serverVars

\* handleQuoteSave lines 656-666: totals first, then the breakdown
WriteSnapshot ==
    /\ snapResult.done /\ ~snapResult.err /\ ~snapDocs.done
    /\ LET t == MarshalTotals(snapResult.Totals)
           b == MarshalBreakdown(snapResult.Breakdown)
       IN  snapDocs' = [done |-> TRUE, err |-> t.err \/ b.err,
                        breakdownJSON |-> b.text, totalsJSON |-> t.text]
    /\ UNCHANGED <<startupVars, calcForm, calcItem, calcExtra, calcGlobal, calcResult, snapResult, snapRead>>
    /\ UNCHANGED serverVars

\* getQuoteDetail lines 804-805 on the texts written
ReadSnapshot ==
    /\ snapDocs.done /\ ~snapDocs.err /\ ~snapRead.done
    /\ \E b \in extractBreakdownFromJSON(snapDocs.breakdownJSON) :
         snapRead' = [done |-> TRUE, Breakdown |-> b,
                      Total |-> extractTotalFromJSON(snapDocs.totalsJSON)]
    /\ UNCHANGED <<startupVars, calcForm, calcItem, calcExtra, calcGlobal, calcResult, snapResult, snapDocs>>
    /\ UNCHANGED serverVars

CalcNext == RunCalculate \/ RunSnapshot \/ WriteSnapshot \/ ReadSnapshot

SpecCalc == CalcInit /\ [][CalcNext]_vars

(***************************************************************************)
(* Properties of the pricing computation (SpecCalc)                        *)
(***************************************************************************)
IsNonNegative(x) == FLe(F(0), x)

CalcInputsNonNegative ==
    /\ IsNonNegative(calcItem.Grams) /\ IsNonNegative(calcItem.PrintMinutes)
    /\ IsNonNegative(calcItem.LaborMinutes) /\ IsNonNegative(calcItem.CostPerKg)
    /\ IsNonNegative(calcGlobal.MachineHourlyRate) /\ IsNonNegative(calcGlobal.LaborPerMinute)
    /\ IsNonNegative(calcGlobal.OverheadFixed) /\ IsNonNegative(calcGlobal.OverheadPercent)
    /\ IsNonNegative(calcGlobal.FailureRatePercent) /\ IsNonNegative(calcGlobal.WastePercent)
    /\ IsNonNegative(calcGlobal.MarginPercent) /\ IsNonNegative(calcGlobal.TaxPercent)
    /\ IsNonNegative(calcGlobal.PackagingCost) /\ IsNonNegative(calcGlobal.ShippingCost)

ComponentSum(b) == FAdd(FAdd(b.MaterialCost, b.MachineCost), b.LaborCost)

TotalOfParts(b) ==
    FAdd(FAdd(FAdd(FAdd(FAdd(FAdd(b.Subtotal, b.Overhead), b.FailureInsurance),
                        b.PackagingCost), b.ShippingCost), b.Margin), b.Tax)

\* C1 as stated: for every result of Calculate on non-negative inputs with
\* quantity > 0, Subtotal = MaterialCost + MachineCost + LaborCost.
C1_SubtotalIsComponentSum ==
    (calcResult.done /\ CalcInputsNonNegative /\ FGt(calcItem.Quantity, F(0)))
        => calcResult.Breakdown.Subtotal = ComponentSum(calcResult.Breakdown)

\* C1 amended: for every result of Calculate on non-negative inputs with
\* quantity > 0, Subtotal = (MaterialCost + MachineCost + LaborCost) * Quantity,
\* the three component fields being the per-unit values.
C1_SubtotalIsScaledComponentSum ==
    (calcResult.done /\ CalcInputsNonNegative /\ FGt(calcItem.Quantity, F(0)))
        => calcResult.Breakdown.Subtotal =
              FMul(ComponentSum(calcResult.Breakdown), calcItem.Quantity)

C1_Witness ==
    /\ calcResult.done /\ CalcInputsNonNegative
    /\ calcItem.Quantity = F(3)
    /\ calcResult.Breakdown.Subtotal # ComponentSum(calcResult.Breakdown)

\* C2: the total returned by Calculate and by calculateQuoteSnapshot is
\* Subtotal + Overhead + FailureInsurance + PackagingCost + ShippingCost +
\* Margin + Tax of the Breakdown returned with it, for all inputs.
C2_TotalIsSumOfParts ==
    /\ calcResult.done => calcResult.Totals.Total = TotalOfParts(calcResult.Breakdown)
    /\ (snapResult.done /\ ~snapResult.err)
          => snapResult.Totals.Total = TotalOfParts(snapResult.Breakdown)

C2_Witness ==
    /\ calcResult.done /\ snapResult.done /\ ~snapResult.err
    /\ Len(calcExtra) = 1
    /\ FGt(calcResult.Breakdown.Tax, F(0)) /\ FGt(snapResult.Breakdown.Tax, F(0))
    /\ FGt(calcResult.Breakdown.PackagingCost, F(0))
    /\ FGt(calcResult.Breakdown.Margin, F(0))

\* C6: decoding the JSON texts written for a computed Breakdown and Total
\* gives back that Breakdown, in all ten fields, and that Total.
C6_SnapshotRoundTrip ==
    snapRead.done =>
        /\ snapRead.Breakdown = snapResult.Breakdown
        /\ snapRead.Total = snapResult.Totals.Total
        /\ extractBreakdownFromJSON(snapDocs.breakdownJSON) = {snapResult.Breakdown}

C6_Witness ==
    /\ snapRead.done
    /\ snapResult.Breakdown.Tax.d > 4
    /\ snapResult.Breakdown.PackagingCost # snapResult.Breakdown.ShippingCost
    /\ snapRead.Total = snapResult.Totals.Total

(***************************************************************************)
(* Properties of quote creation (Spec)                                     *)
(***************************************************************************)
\* C3: while handleQuoteSave requests run, and fail at arbitrary steps, every
\* stored quote header has at least one line item, every stored line item
\* belongs to a stored header, and a reader finds the first item of every
\* quote it can see.
C3_HeaderAndItemsTogether ==
    /\ \A q \in DOMAIN quotes : \E i \in DOMAIN quote_items : quote_items[i].quote_id = q
    /\ \A i \in DOMAIN quote_items : quote_items[i].quote_id \in DOMAIN quotes
    /\ \A q \in DOMAIN quotes : \A d \in getQuoteDetail(q) : ~d.err /\ d.Item # NoItem

C3_Witness ==
    /\ quotes # EmptyTable
    /\ \E r \in Savers : /\ save[r].pc = "items"
                         /\ save[r].tx.quotes # EmptyTable
                         /\ save[r].tx.quote_items = EmptyTable
    /\ \E r \in Savers : save[r].pc = "done"

\* C4: the step at which a handleQuoteSave request fails changes neither
\* quotes nor quote_items, and no row written for that request (its header,
\* an item of it) is in the tables afterwards.
C4_FailedSaveChangesNothing ==
    [][\A r \in Savers :
          (save[r].pc # "failed" /\ save'[r].pc = "failed") =>
              /\ quotes' = quotes
              /\ quote_items' = quote_items
              /\ save[r].quoteID \notin DOMAIN quotes'
              /\ \A i \in DOMAIN quote_items' :
                    quote_items'[i].quote_id # save[r].quoteID]_vars

C4_Witness ==
    /\ quotes # EmptyTable
    /\ \E r \in Savers : save[r].pc = "failed" /\ save[r].failedAt \in {"items", "commit"}

(***************************************************************************)
(* Properties of reading (SpecAdmin, SpecReader)                           *)
(***************************************************************************)
BreakdownFields == {"MaterialCost", "MachineCost", "LaborCost", "Subtotal", "Overhead",
                    "FailureInsurance", "PackagingCost", "ShippingCost", "Margin", "Tax"}

\* the key each field is written under (the json tags of quoteCalcBreakdown)
CanonicalKey ==
    [MaterialCost |-> KeyMaterialCost, MachineCost |-> KeyMachineCost,
     LaborCost |-> KeyLaborCost, Subtotal |-> KeySubtotal, Overhead |-> KeyOverhead,
     FailureInsurance |-> KeyFailureInsurance, PackagingCost |-> KeyPackagingCost,
     ShippingCost |-> KeyShippingCost, Margin |-> KeyMargin, Tax |-> KeyTax]

\* the ordered alias list of each field
Aliases ==
    [MaterialCost |-> <<KeyMaterialCost, KeyMaterial>>,
     MachineCost |-> <<KeyMachineCost, KeyMachine>>,
     LaborCost |-> <<KeyLaborCost, KeyLabor>>,
     Subtotal |-> <<KeySubtotal>>,
     Overhead |-> <<KeyOverhead>>,
     FailureInsurance |-> <<KeyFailureInsurance, KeyFailure>>,
     PackagingCost |-> <<KeyPackagingCost, KeyPackaging>>,
     ShippingCost |-> <<KeyShippingCost, KeyShipping>>,
     Margin |-> <<KeyMargin>>,
     Tax |-> <<KeyTax>>]

\* the numbers a document holds under exactly the given top-level key
HeldUnder(raw, key) ==
    IF ~raw.valid \/ raw.root.t # "obj" THEN {}
    ELSE { ParseNumber(raw.root.pairs[i].v.tok) :
             i \in { j \in 1..Len(raw.root.pairs) :
                       raw.root.pairs[j].k = key /\ raw.root.pairs[j].v.t = "num" } }

\* C5: whatever the rate configuration and the materials have become, a
\* quote detail shows for each Breakdown field, and as Total, exactly the
\* number its stored breakdown_json and totals_json hold under that field's
\* key, and every row of the quote list shows the stored total.
C5_ReadsStoredFigures ==
    /\ (lastRead.kind = "detail" /\ ~lastRead.detail.err) =>
          /\ \A f \in BreakdownFields :
                HeldUnder(quotes[lastRead.detail.ID].breakdown_json, CanonicalKey[f])
                    = {lastRead.detail.Breakdown[f]}
          /\ HeldUnder(quotes[lastRead.detail.ID].totals_json, KeyTotal)
                = {lastRead.detail.Totals.Total}
    /\ lastRead.kind = "list" =>
          \A i \in 1..Len(lastRead.list) :
             HeldUnder(quotes[lastRead.list[i].ID].totals_json, KeyTotal)
                = {lastRead.list[i].Total}

C5_Witness ==
    /\ lastRead.kind = "detail" /\ ~lastRead.detail.err
    /\ rate_config[1].TaxPercent # lastRead.detail.TaxPercent
    /\ rate_config[1].MachineHourlyRate # F(0)
    /\ materials[1].cost_per_kg # F(20)
    /\ FGt(lastRead.detail.Breakdown.MaterialCost, F(0))

\* the numeric leaves of a document after flattening: nested objects give
\* parent_child keys, keys are normalized, values that are no numbers are left out
RECURSIVE FlatLeaves(_, _)
FlatLeaves(prefix, source) ==
    IF source = <<>> THEN {}
    ELSE LET key == IF prefix # <<>>
                    THEN prefix \o <<"_">> \o normalizeJSONKey(Head(source).k)
                    ELSE normalizeJSONKey(Head(source).k)
             here == CASE Head(source).v.t = "num" ->
                              {[k |-> key, v |-> ParseNumber(Head(source).v.tok)]}
                       [] Head(source).v.t = "obj" -> FlatLeaves(key, Head(source).v.pairs)
                       [] OTHER -> {}
         IN  here \cup FlatLeaves(prefix, Tail(source))

LeafValues(raw, key) ==
    IF ~raw.valid \/ raw.root.t # "obj" THEN {}
    ELSE { l.v : l \in { x \in FlatLeaves(<<>>, raw.root.pairs) : x.k = key } }

\* the values of the first of the keys the document has a number under; 0 when
\* it has none of them
RECURSIVE FirstAliasValues(_, _)
FirstAliasValues(raw, keys) ==
    IF keys = <<>> THEN {F(0)}
    ELSE IF LeafValues(raw, Head(keys)) # {} THEN LeafValues(raw, Head(keys))
    ELSE FirstAliasValues(raw, Tail(keys))

\* each alias followed by its breakdown_ form
RECURSIVE WithPrefixedForms(_)
WithPrefixedForms(keys) ==
    IF keys = <<>> THEN <<>>
    ELSE <<Head(keys), BreakdownPrefix \o Head(keys)>> \o WithPrefixedForms(Tail(keys))

IsObject(raw) == raw.valid /\ raw.root.t = "obj"

\* C7 as stated: for a breakdown document that is a JSON object, each field
\* of the Breakdown read is the number under the first alias of its list the
\* document has, 0 when it has none of the aliases; the read never fails.
C7_FirstAliasOrZero ==
    /\ \A q \in DOMAIN quotes : NoDetail \notin getQuoteDetail(q)
    /\ (lastRead.kind = "detail" /\ ~lastRead.detail.err
        /\ IsObject(quotes[lastRead.detail.ID].breakdown_json)) =>
          \A f \in BreakdownFields :
             lastRead.detail.Breakdown[f] \in
                FirstAliasValues(quotes[lastRead.detail.ID].breakdown_json, Aliases[f])

\* C7 amended: for a breakdown document that is a JSON object, each field of
\* the Breakdown read is a number the flattened document holds under the
\* first key it has in the order alias, breakdown_alias, next alias,
\* breakdown_ next alias, 0 when it has none of them; the read never fails.
C7_FirstAliasOrPrefixedOrZero ==
    /\ \A q \in DOMAIN quotes : NoDetail \notin getQuoteDetail(q)
    /\ (lastRead.kind = "detail" /\ ~lastRead.detail.err
        /\ IsObject(quotes[lastRead.detail.ID].breakdown_json)) =>
          \A f \in BreakdownFields :
             lastRead.detail.Breakdown[f] \in
                FirstAliasValues(quotes[lastRead.detail.ID].breakdown_json,
                                 WithPrefixedForms(Aliases[f]))

C7_Witness ==
    /\ lastRead.kind = "detail" /\ ~lastRead.detail.err
    /\ LeafValues(quotes[1].breakdown_json, KeyMaterialCost) = {}
    /\ LeafValues(quotes[1].breakdown_json, KeyMaterial) # {}
    /\ LeafValues(quotes[1].breakdown_json, BreakdownPrefix \o KeyTax) # {}
    /\ lastRead.detail.Breakdown.MaterialCost = F(2)
    /\ lastRead.detail.Breakdown.Tax = F(7)

\* the first of total, grand_total, final_total the document holds a number
\* under, keys compared after the given conversion; 0 when it holds none
RECURSIVE TotalUnder(_, _, _)
TotalUnder(raw, keys, normalized) ==
    IF keys = <<>> THEN {F(0)}
    ELSE LET held == { ParseNumber(raw.root.pairs[i].v.tok) :
                         i \in { j \in 1..Len(raw.root.pairs) :
                                   /\ raw.root.pairs[j].v.t = "num"
                                   /\ IF normalized
                                      THEN normalizeJSONKey(raw.root.pairs[j].k) = Head(keys)
                                      ELSE raw.root.pairs[j].k = Head(keys) } }
         IN  IF held # {} THEN held ELSE TotalUnder(raw, Tail(keys), normalized)

TotalKeys == <<KeyTotal, KeyGrandTotal, KeyFinalTotal>>

\* C8 as stated: for a totals document that is a JSON object, the total read
\* (detail and list) is the number under total, else under grand_total, else
\* under final_total, else 0, whatever else the document contains.
C8_TotalByPriority ==
    /\ (lastRead.kind = "detail" /\ ~lastRead.detail.err
        /\ IsObject(quotes[lastRead.detail.ID].totals_json)) =>
          lastRead.detail.Totals.Total
              \in TotalUnder(quotes[lastRead.detail.ID].totals_json, TotalKeys, FALSE)
    /\ lastRead.kind = "list" =>
          \A i \in 1..Len(lastRead.list) :
             IsObject(quotes[lastRead.list[i].ID].totals_json) =>
                lastRead.list[i].Total
                    \in TotalUnder(quotes[lastRead.list[i].ID].totals_json, TotalKeys, FALSE)

OnlyNumbers(raw) == \A i \in 1..Len(raw.root.pairs) : raw.root.pairs[i].v.t = "num"

\* C9 as stated: keys are normalized in both documents: the total read from
\* an object of numbers is the number under the first of total, grand_total,
\* final_total among its normalized keys, as the material cost read is the
\* number under the first of material_cost, material among the normalized keys.
C9_KeysNormalizedInBoth ==
    (lastRead.kind = "detail" /\ ~lastRead.detail.err) =>
        /\ (IsObject(quotes[lastRead.detail.ID].totals_json)
            /\ OnlyNumbers(quotes[lastRead.detail.ID].totals_json)) =>
              lastRead.detail.Totals.Total
                  \in TotalUnder(quotes[lastRead.detail.ID].totals_json, TotalKeys, TRUE)
        /\ (IsObject(quotes[lastRead.detail.ID].breakdown_json)
            /\ OnlyNumbers(quotes[lastRead.detail.ID].breakdown_json)) =>
              lastRead.detail.Breakdown.MaterialCost
                  \in TotalUnder(quotes[lastRead.detail.ID].breakdown_json,
                                 WithPrefixedForms(Aliases.MaterialCost), TRUE)

\* C10: for a stored text that is no JSON the Breakdown read is all zero and
\* the total read is 0, getQuoteDetail returns the quote and listQuotes lists
\* it, neither with an error.
C10_MalformedReadsAsZero ==
    /\ \A q \in DOMAIN quotes :
          /\ ~quotes[q].breakdown_json.valid =>
                extractBreakdownFromJSON(quotes[q].breakdown_json) = {ZeroBreakdown}
          /\ ~quotes[q].totals_json.valid => extractTotalFromJSON(quotes[q].totals_json) = F(0)
          /\ \A d \in getQuoteDetail(q) :
                /\ ~d.err /\ d.ID = q
                /\ ~quotes[q].breakdown_json.valid => d.Breakdown = ZeroBreakdown
                /\ ~quotes[q].totals_json.valid => d.Totals.Total = F(0)
    /\ (lastRead.kind = "detail" /\ lastRead.detail.ID \in DOMAIN quotes) =>
          /\ ~quotes[lastRead.detail.ID].breakdown_json.valid =>
                lastRead.detail.Breakdown = ZeroBreakdown
          /\ ~quotes[lastRead.detail.ID].totals_json.valid =>
                lastRead.detail.Totals.Total = F(0)
    /\ lastRead.kind = "list" =>
          /\ { lastRead.list[i].ID : i \in 1..Len(lastRead.list) } = DOMAIN quotes
          /\ \A i \in 1..Len(lastRead.list) :
                ~quotes[lastRead.list[i].ID].totals_json.valid => lastRead.list[i].Total = F(0)

C10_Witness ==
    /\ lastRead.kind = "detail" /\ ~lastRead.detail.err /\ lastRead.detail.ID = 1
    /\ ~quotes[1].breakdown_json.valid /\ ~quotes[1].totals_json.valid
    /\ lastRead.detail.Breakdown = ZeroBreakdown

(***************************************************************************)
(* Properties of the quote list (SpecList)                                 *)
(***************************************************************************)
\* sub occurs in str, character for character
Contains(str, sub) ==
    \E i \in 0..(Len(str) - Len(sub)) : SubSeq(str, i + 1, i + Len(sub)) = sub

\* sub occurs in str when ASCII letters are compared without regard to case
ContainsFold(str, sub) == Contains(ToLower(str), ToLower(sub))

ListedIDs == { lastRead.list[i].ID : i \in 1..Len(lastRead.list) }

\* C11 as stated: for a non-empty search term, the quotes listed are exactly
\* those whose title or notes contains the term as a case-sensitive
\* substring, '%' and '_' standing for themselves.
C11_ListsLiteralMatches ==
    (lastRead.kind = "list" /\ lastRead.query # <<>>) =>
        ListedIDs = { id \in DOMAIN quotes :
                        \/ Contains(Coalesce(quotes[id].title), lastRead.query)
                        \/ Contains(Coalesce(quotes[id].notes), lastRead.query) }

\* C12: for a non-empty search term, every quote whose title or whose notes
\* contains the term, in any ASCII letter case, is listed.
C12_ListsTitleAndNotesAnyCase ==
    (lastRead.kind = "list" /\ lastRead.query # <<>>) =>
        \A id \in DOMAIN quotes :
            (\/ ContainsFold(Coalesce(quotes[id].title), lastRead.query)
             \/ ContainsFold(Coalesce(quotes[id].notes), lastRead.query))
                => id \in ListedIDs

C12_Witness ==
    /\ lastRead.kind = "list" /\ lastRead.query = <<"c","a","s","a">>
    /\ DOMAIN quotes = {1, 2}
    /\ quotes[1].title = Text(<<"C","a","s","a">>) /\ quotes[1].notes = NullString
    /\ quotes[2].title = NullString /\ quotes[2].notes = Text(<<"m","i"," ","c","a","s","a">>)
    /\ ListedIDs = {1, 2}

\* C13: the list for the empty search term has every stored quote exactly
\* once, a later created_at before an earlier one and, for equal created_at,
\* a higher id before a lower one, whatever the order of the ids and the
\* dates; each row shows the total its totals_json holds.
C13_ListsAllNewestFirst ==
    (lastRead.kind = "list" /\ lastRead.query = <<>>) =>
        /\ Len(lastRead.list) = Cardinality(DOMAIN quotes)
        /\ ListedIDs = DOMAIN quotes
        /\ \A i, j \in 1..Len(lastRead.list) :
              i < j =>
                 \/ quotes[lastRead.list[i].ID].created_at > quotes[lastRead.list[j].ID].created_at
                 \/ /\ quotes[lastRead.list[i].ID].created_at
                          = quotes[lastRead.list[j].ID].created_at
                    /\ lastRead.list[i].ID > lastRead.list[j].ID
        /\ \A i \in 1..Len(lastRead.list) :
              /\ lastRead.list[i].CreatedAt = quotes[lastRead.list[i].ID].created_at
              /\ HeldUnder(quotes[lastRead.list[i].ID].totals_json, KeyTotal)
                    = {lastRead.list[i].Total}

C13_Witness ==
    /\ lastRead.kind = "list" /\ lastRead.query = <<>>
    /\ DOMAIN quotes = {1, 2}
    /\ quotes[1].created_at > quotes[2].created_at
    /\ lastRead.list[1].ID = 1 /\ lastRead.list[2].ID = 2
    /\ lastRead.list[1].Total = F(100) /\ lastRead.list[2].Total = F(200)

(***************************************************************************)
(* Stored quotes never change (Spec)                                       *)
(***************************************************************************)
\* C14: no step of any server operation removes a row of quotes or of
\* quote_items or changes any field of one: rows are only added.
C14_QuotesImmutable ==
    [][/\ \A id \in DOMAIN quotes : id \in DOMAIN quotes' /\ quotes'[id] = quotes[id]
       /\ \A id \in DOMAIN quote_items :
             id \in DOMAIN quote_items' /\ quote_items'[id] = quote_items[id]]_vars

C14_Witness ==
    /\ \A r \in Savers : save[r].pc = "done"
    /\ Cardinality(DOMAIN quotes) = 2
    /\ Cardinality(DOMAIN quote_items) >= 3
    /\ rate_config[1] # DefaultRateConfig
    /\ Cardinality(DOMAIN materials) = 2

\* ---------------------------------------------------------------------------
\* Form validation: POST /quote/calc and the validation step of POST /quotes
\* ---------------------------------------------------------------------------

\* handleQuoteCalc: the form is parsed first; the rates, the material and the
\* (blank) shipping and packaging choices are looked up, then pricing.Calculate
\* runs on what was parsed
HandleQuoteCalc ==
    /\ ~calcResult.done
    /\ LET values == parseQuoteFormValues(calcForm)
           rates == ensureRateConfig(rate_config)[1]
           item == [Grams |-> values.Grams, PrintMinutes |-> values.PrintMinutes,
                    LaborMinutes |-> values.LaborMinutes, Quantity |-> values.Quantity,
                    CostPerKg |-> materials[values.MaterialID].cost_per_kg]
           global == SaveGlobal(rates, values.WastePercent, values.MarginPercent,
                                F(0), F(0), values.TaxEnabled)
       IN  IF values.err
           THEN /\ calcResult' = [NoResult EXCEPT !.done = TRUE, !.err = TRUE]
                /\ UNCHANGED <<calcItem, calcGlobal, rate_config>>
           ELSE IF ~HasActiveMaterial(materials, values.MaterialID)
           THEN /\ calcResult' = [NoResult EXCEPT !.done = TRUE, !.err = TRUE]
                /\ rate_config' = ensureRateConfig(rate_config)
                /\ UNCHANGED <<calcItem, calcGlobal>>
           ELSE /\ calcItem' = item
                /\ calcGlobal' = [global EXCEPT !.TaxPercent = values.TaxPercent]
                /\ calcResult' = [done |-> TRUE, err |-> FALSE,
                                  Breakdown |-> Calculate(item, calcGlobal').Breakdown,
                                  Totals |-> Calculate(item, calcGlobal').Totals]
                /\ rate_config' = ensureRateConfig(rate_config)
    /\ UNCHANGED <<startupVars, calcForm, calcExtra, snapResult, snapDocs, snapRead>>
    /\ UNCHANGED <<materials, quotes, quote_items, sqlite_sequence, writer, save, lastRead>>

\* what a field may hold: below, at and above each limit, a fraction, "NaN"
\* and a text that is no number
FieldValues ==
    {RawInt(0 - 1), RawInt(0), RawInt(1), RawInt(100), RawInt(101),
     RawNum(Q(1, 2)), RawNum(NaN), RawText}

GoodCalcForm ==
    [material_id |-> RawInt(1), grams |-> RawInt(500), printMinutes |-> RawInt(30),
     laborMinutes |-> RawInt(10), quantity |-> RawInt(2), wastePercent |-> RawInt(50),
     marginPercent |-> RawInt(25), taxEnabled |-> TRUE, taxPercent |-> RawInt(25)]

CalcFields ==
    {"grams", "printMinutes", "laborMinutes", "quantity", "wastePercent",
     "marginPercent", "taxPercent"}

\* a well-formed calculator form with one field replaced
CalcForms == { [GoodCalcForm EXCEPT ![f] = v] : f \in CalcFields, v \in FieldValues }

ItemFields == {"grams", "print_minutes", "labor_minutes", "quantity"}

QuoteFields == {"waste_percent", "margin_percent", "packaging_cost", "shipping_cost"}

\* a well-formed one-item quote form with one field replaced
ValidationForms ==
    { FormOf(<<[RawItemA EXCEPT ![f] = v]>>, RawInt(50)) :
        f \in ItemFields, v \in FieldValues }
    \cup { [FormOf(<<RawItemA>>, RawInt(50)) EXCEPT ![f] = v] :
             f \in QuoteFields, v \in FieldValues }

FormInit ==
    /\ StartupParked
    /\ ServerInit
    /\ calcForm \in CalcForms
    /\ calcItem = [Grams |-> F(0), PrintMinutes |-> F(0), LaborMinutes |-> F(0),
                   Quantity |-> F(0), CostPerKg |-> F(0)]
    /\ calcExtra = <<>>
    /\ calcGlobal = ZeroGlobal
    /\ CalcIdle

\* the save request up to the end of its validation
FormQuoteSave == \/ \E form \in ValidationForms : SaveEnsureRates(1, form)
                 \/ SaveReadRates(1)

FormNext == HandleQuoteCalc \/ FormQuoteSave

SpecForm == FormInit /\ [][FormNext]_vars

\* ---------------------------------------------------------------------------
\* C15
\* ---------------------------------------------------------------------------

\* the field holds a number: it parses and is not NaN
IsNumber(raw) == raw.kind # "text" /\ ~raw.num.nan

IsPositive(raw) == IsNumber(raw) /\ FGt(raw.num, F(0))

IsNonNegativeNumber(raw) == IsNumber(raw) /\ FLe(F(0), raw.num)

IsPercentage(raw) == IsNonNegativeNumber(raw) /\ FLe(raw.num, F(100))

\* the documented ranges of the calculator form
CalcFormInRange(form) ==
    /\ IsPositive(form.grams)
    /\ IsNonNegativeNumber(form.printMinutes)
    /\ IsNonNegativeNumber(form.laborMinutes)
    /\ IsPositive(form.quantity)
    /\ IsPercentage(form.wastePercent)
    /\ IsPercentage(form.marginPercent)
    /\ IsPercentage(form.taxPercent)

\* the documented ranges of the quote form, whose quantity is a whole count
SaveFormInRange(form) ==
    /\ \A i \in 1..Len(form.material_id) :
         /\ IsPositive(form.grams[i])
         /\ IsNonNegativeNumber(form.print_minutes[i])
         /\ IsNonNegativeNumber(form.labor_minutes[i])
         /\ IsPositive(form.quantity[i]) /\ form.quantity[i].kind = "int"
    /\ IsPercentage(form.waste_percent)
    /\ IsPercentage(form.margin_percent)
    /\ IsNonNegativeNumber(form.packaging_cost)
    /\ IsNonNegativeNumber(form.shipping_cost)

\* C15: on the calculate path and on the save path a form is accepted exactly
\* when each numeric field is a number in its documented range (grams > 0,
\* printMinutes >= 0, laborMinutes >= 0, quantity > 0, percentages within
\* 0..100, packaging and shipping cost >= 0); a rejected form is answered with
\* an error and nothing has been priced
C15_AcceptsExactlyDocumentedRanges ==
    [][/\ (~calcResult.done /\ calcResult'.done) =>
            /\ calcResult'.err <=> ~CalcFormInRange(calcForm)
            /\ calcResult'.err =>
                 /\ calcResult'.Breakdown = ZeroBreakdown
                 /\ calcItem' = calcItem
       /\ (save[1].pc = "rates" /\ save'[1].pc # "rates") =>
            /\ save'[1].pc = "calc" <=> SaveFormInRange(save[1].form)
            /\ save'[1].pc # "calc" =>
                 /\ save'[1].pc = "failed"
                 /\ save'[1].failedAt = "validation"]_vars

\* ---------------------------------------------------------------------------
\* C16
\* ---------------------------------------------------------------------------

\* the tax the statement gives for a Breakdown under the given GlobalInput
TaxOf(b, global) ==
    IF global.TaxEnabled
    THEN FMul(FDiv(global.TaxPercent, F(100)),
              FAdd(FAdd(FAdd(b.Subtotal, b.Overhead), b.FailureInsurance), b.Margin))
    ELSE F(0)

\* C16: with taxEnabled false the Tax of Calculate and of
\* calculateQuoteSnapshot is 0 whatever the taxPercent; with taxEnabled true
\* it is (taxPercent / 100) * (Subtotal + Overhead + FailureInsurance + Margin)
C16_TaxOnlyWhenEnabled ==
    /\ calcResult.done => calcResult.Breakdown.Tax = TaxOf(calcResult.Breakdown, calcGlobal)
    /\ (snapResult.done /\ ~snapResult.err)
          => snapResult.Breakdown.Tax = TaxOf(snapResult.Breakdown, calcGlobal)

C16_Witness ==
    /\ calcResult.done /\ snapResult.done /\ ~snapResult.err
    /\ ~calcGlobal.TaxEnabled /\ calcGlobal.TaxPercent = F(25)
    /\ FGt(calcResult.Breakdown.Subtotal, F(0)) /\ FGt(snapResult.Breakdown.Margin, F(0))
    /\ calcResult.Breakdown.Tax = F(0) /\ snapResult.Breakdown.Tax = F(0)

\* ---------------------------------------------------------------------------
\* C17
\* ---------------------------------------------------------------------------

\* C17 as stated: with quantity 0 and every other input non-negative, the
\* figures of Calculate that derive from the item (Subtotal and
\* FailureInsurance) and the Total are 0
C17_ZeroQuantityZeroCosts ==
    (calcResult.done /\ CalcInputsNonNegative /\ calcItem.Quantity = F(0))
        => /\ calcResult.Breakdown.Subtotal = F(0)
           /\ calcResult.Breakdown.FailureInsurance = F(0)
           /\ calcResult.Totals.Total = F(0)

\* C17 amended: with quantity 0 and every other input non-negative, Subtotal
\* and FailureInsurance are 0, the Overhead is the fixed overhead, the Margin
\* is the margin percentage of the fixed overhead, and the Total is what the
\* batch costs without any piece: Overhead + PackagingCost + ShippingCost +
\* Margin + Tax
C17_ZeroQuantityLeavesFixedCosts ==
    (calcResult.done /\ CalcInputsNonNegative /\ calcItem.Quantity = F(0))
        => LET b == calcResult.Breakdown
           IN  /\ b.Subtotal = F(0)
               /\ b.FailureInsurance = F(0)
               /\ b.Overhead = calcGlobal.OverheadFixed
               /\ b.Margin = FMul(FDiv(calcGlobal.MarginPercent, F(100)),
                                  calcGlobal.OverheadFixed)
               /\ b.Tax = (IF calcGlobal.TaxEnabled
                           THEN FMul(FDiv(calcGlobal.TaxPercent, F(100)),
                                     FAdd(b.Overhead, b.Margin))
                           ELSE F(0))
               /\ calcResult.Totals.Total =
                    FAdd(FAdd(FAdd(FAdd(b.Overhead, b.PackagingCost), b.ShippingCost),
                              b.Margin), b.Tax)

C17_Witness ==
    /\ calcResult.done /\ CalcInputsNonNegative /\ calcItem.Quantity = F(0)
    /\ calcGlobal.OverheadFixed = F(10) /\ calcGlobal.OverheadPercent = F(25)
    /\ calcGlobal.MarginPercent = F(25) /\ calcGlobal.TaxEnabled
    /\ calcGlobal.TaxPercent = F(25)
    /\ FGt(calcResult.Breakdown.MaterialCost, F(0))
    /\ FGt(calcResult.Totals.Total, F(0))

\* ---------------------------------------------------------------------------
\* C18
\* ---------------------------------------------------------------------------

\* (materialCost + machineCost + laborCost) * quantity of one line item
LineCost(item, global, mats) ==
    FMul(FAdd(FAdd(FMul(FMul(FDiv(item.Grams, F(1000)), mats[item.MaterialID].cost_per_kg),
                        FAdd(F(1), FDiv(global.WastePercent, F(100)))),
                   FMul(FDiv(item.PrintMinutes, F(60)), global.MachineHourlyRate)),
              FMul(item.LaborMinutes, global.LaborPerMinute)),
         F(item.Quantity))

RECURSIVE SumOfLineCosts(_, _, _)
SumOfLineCosts(items, global, mats) ==
    IF items = <<>> THEN F(0)
    ELSE FAdd(LineCost(Head(items), global, mats),
              SumOfLineCosts(Tail(items), global, mats))

\* C18: for a quote of n >= 1 line items calculateQuoteSnapshot returns as
\* Subtotal the sum over the items of (materialCost + machineCost + laborCost)
\* * quantity, and applies the fixed overhead, the overhead percentage, the
\* failure insurance, the margin and the tax once, to that combined subtotal
C18_BatchFiguresOnCombinedSubtotal ==
    (snapResult.done /\ ~snapResult.err) =>
        LET b == snapResult.Breakdown
        IN  /\ b.Subtotal = SumOfLineCosts(CalcQuoteItems, calcGlobal, CalcMaterials)
            /\ b.Overhead = FAdd(calcGlobal.OverheadFixed,
                                 FMul(b.Subtotal, FDiv(calcGlobal.OverheadPercent, F(100))))
            /\ b.FailureInsurance =
                 FMul(b.Subtotal, FDiv(calcGlobal.FailureRatePercent, F(100)))
            /\ b.Margin = FMul(FDiv(calcGlobal.MarginPercent, F(100)),
                               FAdd(FAdd(b.Subtotal, b.Overhead), b.FailureInsurance))
            /\ b.Tax = (IF calcGlobal.TaxEnabled
                        THEN FMul(FDiv(calcGlobal.TaxPercent, F(100)),
                                  FAdd(FAdd(FAdd(b.Subtotal, b.Overhead),
                                            b.FailureInsurance), b.Margin))
                        ELSE F(0))

C18_Witness ==
    /\ snapResult.done /\ ~snapResult.err
    /\ Len(CalcQuoteItems) = 2 /\ calcItem.Quantity = F(3)
    /\ calcGlobal.OverheadFixed = F(10) /\ calcGlobal.OverheadPercent = F(25)
    /\ calcGlobal.TaxEnabled /\ calcGlobal.TaxPercent = F(25)
    /\ FGt(snapResult.Breakdown.Subtotal, F(0))
    /\ snapResult.Breakdown.Subtotal # LineCost(CalcQuoteItems[1], calcGlobal, CalcMaterials)

\* ---------------------------------------------------------------------------
\* seed.Run: the startup seed, one transaction per run
\* ---------------------------------------------------------------------------

defaultMaterialName == "PLA (Generico)"

defaultPackagingName == "Empaque estandar"

defaultShippingCountry == "Colombia"

defaultShippingCity == "Bogota"

\* what a statement of the transaction sees of a table: the committed rows
\* and the rows the transaction inserted
SeedView(table, pending) == Merge(table, pending)

\* INSERT into a table with an AUTOINCREMENT id
SeedInsert(table, pending, row) ==
    Merge(pending, [id \in {Max(DOMAIN SeedView(table, pending)) + 1} |-> row])

\* the variables seed.Run does not touch
SeedOthersUnchanged ==
    UNCHANGED <<environ, dotenv, main, calcForm, calcItem, calcExtra, calcGlobal,
                calcResult, snapResult, snapDocs, snapRead, quotes, quote_items,
                sqlite_sequence, save, lastRead>>

SeedTablesUnchanged ==
    UNCHANGED <<users, materials, rate_config, packaging_rates, shipping_rates>>

\* the seed's transaction as holder of SQLite's write lock
SeedWriter == 3

\* db.Begin(): a deferred transaction, which takes the write lock at its
\* first INSERT and keeps it until COMMIT or ROLLBACK
SeedBegin ==
    /\ seedRun.pc = "idle"
    /\ seedRun' = [seedRun EXCEPT !.pc = "admin", !.tx = NoSeedTx,
                                  !.stats = [Inserts |-> 0]]
    /\ UNCHANGED writer
    /\ SeedTablesUnchanged
    /\ SeedOthersUnchanged

\* SeedStep inserting without looking whether the row is there
SeedStepAlwaysInserts(pc, next, table, present, pending) ==
    /\ seedRun.pc = pc
    /\ writer \in {NoWriter, SeedWriter}
    /\ writer' = SeedWriter
    /\ seedRun' = [seedRun EXCEPT !.pc = next, ![ "tx" ][table] = pending,
                                  !.stats.Inserts = @ + 1]
    /\ SeedTablesUnchanged
    /\ SeedOthersUnchanged

\* one ensure step of the transaction: nothing to do, or one INSERT counted
\* in the Stats. The INSERT waits for the write lock; an INSERT that finds
\* the database changed since the transaction's first SELECT fails, which is
\* one of the failures of SeedError.
SeedStep(pc, next, table, present, pending) ==
    /\ seedRun.pc = pc
    /\ present \/ writer \in {NoWriter, SeedWriter}
    /\ writer' = IF present THEN writer ELSE SeedWriter
    /\ seedRun' = IF present
                  THEN [seedRun EXCEPT !.pc = next]
                  ELSE [seedRun EXCEPT !.pc = next, ![ "tx" ][table] = pending,
                                       !.stats.Inserts = @ + 1]
    /\ SeedTablesUnchanged
    /\ SeedOthersUnchanged

\* seedAdmin: skipped unless both the email and the password are configured
seedAdmin ==
    SeedStep("admin", "material", "users",
             \/ seedRun.cfg.AdminEmail = "" \/ seedRun.cfg.AdminPassword = ""
             \/ \E id \in DOMAIN SeedView(users, seedRun.tx.users) :
                   SeedView(users, seedRun.tx.users)[id].email = seedRun.cfg.AdminEmail,
             SeedInsert(users, seedRun.tx.users,
                        [email |-> seedRun.cfg.AdminEmail,
                         password_hash |-> <<"$2", seedRun.cfg.AdminPassword>>]))

ensureMaterial ==
    SeedStep("material", "rates", "materials",
             \E id \in DOMAIN SeedView(materials, seedRun.tx.materials) :
                SeedView(materials, seedRun.tx.materials)[id].name = defaultMaterialName,
             SeedInsert(materials, seedRun.tx.materials,
                        [name |-> defaultMaterialName, cost_per_kg |-> F(0),
                         active |-> TRUE]))

\* ensureRateConfig of the seed: VALUES (1, 0, 0, 0, 0, 0, 19, 'COP')
seedEnsureRateConfig ==
    SeedStep("rates", "packaging", "rate_config",
             1 \in DOMAIN SeedView(rate_config, seedRun.tx.rate_config),
             [id \in {1} |-> [DefaultRateConfig EXCEPT !.TaxPercent = F(19)]])

ensurePackaging ==
    SeedStep("packaging", "shipping", "packaging_rates",
             \E id \in DOMAIN SeedView(packaging_rates, seedRun.tx.packaging_rates) :
                SeedView(packaging_rates, seedRun.tx.packaging_rates)[id].name
                    = defaultPackagingName,
             SeedInsert(packaging_rates, seedRun.tx.packaging_rates,
                        [name |-> defaultPackagingName, flat_cost |-> F(0),
                         active |-> TRUE]))

ensureShippingCO ==
    SeedStep("shipping", "commit", "shipping_rates",
             \E id \in DOMAIN SeedView(shipping_rates, seedRun.tx.shipping_rates) :
                LET row == SeedView(shipping_rates, seedRun.tx.shipping_rates)[id]
                IN  row.country = defaultShippingCountry /\ row.city = defaultShippingCity,
             SeedInsert(shipping_rates, seedRun.tx.shipping_rates,
                        [scope |-> "CITY", country |-> defaultShippingCountry,
                         city |-> defaultShippingCity, flat_cost |-> F(0),
                         active |-> TRUE]))

\* tx.Commit() and return stats, nil
SeedCommit ==
    /\ seedRun.pc = "commit"
    /\ writer \in {NoWriter, SeedWriter}
    /\ writer' = NoWriter
    /\ users' = Merge(users, seedRun.tx.users)
    /\ materials' = Merge(materials, seedRun.tx.materials)
    /\ rate_config' = Merge(rate_config, seedRun.tx.rate_config)
    /\ packaging_rates' = Merge(packaging_rates, seedRun.tx.packaging_rates)
    /\ shipping_rates' = Merge(shipping_rates, seedRun.tx.shipping_rates)
    /\ seedRun' = [seedRun EXCEPT !.pc = "idle", !.tx = NoSeedTx,
                                  !.stats = [Inserts |-> 0],
                                  !.runs = @ + 1, !.succeeded = @ + 1,
                                  !.returned = [err |-> FALSE,
                                                Inserts |-> seedRun.stats.Inserts]]
    /\ SeedOthersUnchanged

\* a statement, the password hashing or the commit fails: tx.Rollback() and
\* return Stats{}, err
SeedError ==
    /\ seedRun.pc # "idle"
    /\ writer' = IF writer = SeedWriter THEN NoWriter ELSE writer
    /\ seedRun' = [seedRun EXCEPT !.pc = "idle", !.tx = NoSeedTx,
                                  !.stats = [Inserts |-> 0], !.runs = @ + 1,
                                  !.returned = [err |-> TRUE, Inserts |-> 0]]
    /\ SeedTablesUnchanged
    /\ SeedOthersUnchanged

MaxRuns == 3

SeedConfigs ==
    {[AdminEmail |-> "admin@oworks.com", AdminPassword |-> "12345"],
     [AdminEmail |-> "admin@oworks.com", AdminPassword |-> ""],
     [AdminEmail |-> "", AdminPassword |-> ""]}

\* a freshly migrated database and a Config
FreshDatabase ==
    /\ users = EmptyTable
    /\ materials = EmptyTable
    /\ rate_config = EmptyTable
    /\ packaging_rates = EmptyTable
    /\ shipping_rates = EmptyTable
    /\ \E cfg \in SeedConfigs : seedRun = [NoSeedRun EXCEPT !.cfg = cfg]
    /\ quotes = EmptyTable
    /\ quote_items = EmptyTable
    /\ sqlite_sequence = [quotes |-> 0, quote_items |-> 0]
    /\ writer = NoWriter
    /\ save = [r \in Savers |-> IdleSave]
    /\ lastRead = NothingRead
    /\ environ = [k \in {} |-> <<>>]
    /\ dotenv = [exists |-> FALSE, lines |-> <<>>, loaded |-> FALSE]
    /\ calcForm = NoCalcForm
    /\ calcItem = [Grams |-> F(0), PrintMinutes |-> F(0), LaborMinutes |-> F(0),
                   Quantity |-> F(0), CostPerKg |-> F(0)]
    /\ calcExtra = <<>>
    /\ calcGlobal = ZeroGlobal
    /\ CalcIdle

SeedInit == FreshDatabase /\ main = Serving

\* seed.Run, called up to MaxRuns times one after the other
Run ==
    \/ seedRun.runs < MaxRuns /\ SeedBegin
    \/ seedAdmin
    \/ ensureMaterial
    \/ seedEnsureRateConfig
    \/ ensurePackaging
    \/ ensureShippingCO
    \/ SeedCommit
    \/ SeedError

SpecSeed == SeedInit /\ [][Run]_vars

\* ---------------------------------------------------------------------------
\* C19
\* ---------------------------------------------------------------------------

\* the committed rows the seed answers for
AdminUsers == {id \in DOMAIN users : users[id].email = seedRun.cfg.AdminEmail}

DefaultMaterials == {id \in DOMAIN materials : materials[id].name = defaultMaterialName}

DefaultPackagings ==
    {id \in DOMAIN packaging_rates : packaging_rates[id].name = defaultPackagingName}

DefaultShippings ==
    {id \in DOMAIN shipping_rates :
        /\ shipping_rates[id].country = defaultShippingCountry
        /\ shipping_rates[id].city = defaultShippingCity}

SeedTablesEmpty ==
    /\ users = EmptyTable /\ materials = EmptyTable /\ rate_config = EmptyTable
    /\ packaging_rates = EmptyTable /\ shipping_rates = EmptyTable

AdminConfigured == seedRun.cfg.AdminEmail # "" /\ seedRun.cfg.AdminPassword # ""

\* C19 as stated: on a freshly migrated database the first run of seed.Run
\* that succeeds reports 5 inserts and every later one 0; from then on there
\* is exactly one admin user with the configured email, one default material,
\* one rate_config row with id 1, one default packaging rate and one default
\* shipping rate; runs that fail leave no row behind
C19_SeedIdempotent ==
    /\ (seedRun.pc = "idle" /\ seedRun.runs >= 1 /\ ~seedRun.returned.err)
          => seedRun.returned.Inserts = (IF seedRun.succeeded = 1 THEN 5 ELSE 0)
    /\ seedRun.succeeded >= 1
          => /\ Cardinality(AdminUsers) = 1
             /\ Cardinality(DefaultMaterials) = 1
             /\ DOMAIN rate_config = {1}
             /\ Cardinality(DefaultPackagings) = 1
             /\ Cardinality(DefaultShippings) = 1
    /\ seedRun.succeeded = 0 => SeedTablesEmpty

\* C19 amended: the same with the admin user counted only when both the admin
\* email and the admin password are configured; when either is empty the
\* first successful run reports 4 inserts and there is no user
C19_SeedIdempotentAsConfigured ==
    /\ (seedRun.pc = "idle" /\ seedRun.runs >= 1 /\ ~seedRun.returned.err)
          => seedRun.returned.Inserts =
                (IF seedRun.succeeded > 1 THEN 0 ELSE IF AdminConfigured THEN 5 ELSE 4)
    /\ (seedRun.pc = "idle" /\ seedRun.runs >= 1 /\ seedRun.returned.err)
          => seedRun.returned.Inserts = 0
    /\ seedRun.succeeded >= 1
          => /\ AdminConfigured => Cardinality(AdminUsers) = 1 /\ Cardinality(DOMAIN users) = 1
             /\ ~AdminConfigured => users = EmptyTable
             /\ Cardinality(DefaultMaterials) = 1 /\ Cardinality(DOMAIN materials) = 1
             /\ DOMAIN rate_config = {1}
             /\ Cardinality(DefaultPackagings) = 1
             /\ Cardinality(DOMAIN packaging_rates) = 1
             /\ Cardinality(DefaultShippings) = 1
             /\ Cardinality(DOMAIN shipping_rates) = 1
    /\ seedRun.succeeded = 0 => SeedTablesEmpty

C19_Witness ==
    /\ seedRun.pc = "idle" /\ seedRun.runs = 3 /\ seedRun.succeeded = 2
    /\ seedRun.returned = [err |-> FALSE, Inserts |-> 0]
    /\ AdminConfigured
    /\ Cardinality(AdminUsers) = 1 /\ Cardinality(DefaultShippings) = 1

\* ---------------------------------------------------------------------------
\* config.loadDotEnv: the .env file read into the process environment
\* ---------------------------------------------------------------------------

\* strings.HasPrefix
HasPrefix(s, prefix) == Len(s) >= Len(prefix) /\ SubSeq(s, 1, Len(prefix)) = prefix

\* strings.Cut(line, "=")
Cut(line) ==
    LET i == IndexOf(line, "=")
    IN  IF i = 0 THEN [ok |-> FALSE, k |-> line, v |-> <<>>]
        ELSE [ok |-> TRUE, k |-> SubSeq(line, 1, i - 1), v |-> SubSeq(line, i + 1, Len(line))]

\* the surrounding pair of double or single quotes is stripped
StripQuotes(v) ==
    IF /\ Len(v) >= 2
       /\ \/ v[1] = "\"" /\ v[Len(v)] = "\""
          \/ v[1] = "'" /\ v[Len(v)] = "'"
    THEN SubSeq(v, 2, Len(v) - 1)
    ELSE v

\* os.Getenv: the empty string for a variable that is not set
Getenv(env, k) == IF k \in DOMAIN env THEN env[k] ELSE <<>>

\* os.Setenv
Setenv(env, k, v) == [x \in (DOMAIN env) \cup {k} |-> IF x = k THEN v ELSE env[x]]

ExportPrefix == <<"e", "x", "p", "o", "r", "t", " ">>

\* the body of the scanner loop for one line of the file
LoadLine(env, text) ==
    LET trimmed == TrimSpace(text)
        line == IF HasPrefix(trimmed, ExportPrefix)
                THEN TrimSpace(SubSeq(trimmed, Len(ExportPrefix) + 1, Len(trimmed)))
                ELSE trimmed
        k == TrimSpace(Cut(line).k)
        v == StripQuotes(TrimSpace(Cut(line).v))
    IN  IF trimmed = <<>> \/ HasPrefix(trimmed, <<"#">>) THEN env
        ELSE IF ~Cut(line).ok THEN env
        ELSE IF k = <<>> THEN env
        ELSE IF Getenv(env, k) # <<>> THEN env
        ELSE Setenv(env, k, v)

RECURSIVE LoadLines(_, _)
LoadLines(env, lines) ==
    IF lines = <<>> THEN env ELSE LoadLines(LoadLine(env, Head(lines)), Tail(lines))

\* a file that does not exist (or cannot be opened) changes nothing
loadDotEnv(env, file) == IF file.exists THEN LoadLines(env, file.lines) ELSE env

\* config.Load calls loadDotEnv(".env") once, before reading the environment
LoadDotEnv ==
    /\ ~dotenv.loaded
    /\ environ' = loadDotEnv(environ, dotenv)
    /\ dotenv' = [dotenv EXCEPT !.loaded = TRUE]
    /\ UNCHANGED <<users, packaging_rates, shipping_rates, seedRun, main>>
    /\ UNCHANGED <<calcForm, calcItem, calcExtra, calcGlobal, calcResult, snapResult,
                   snapDocs, snapRead>>
    /\ UNCHANGED serverVars

MaxLines == 2

NameA == <<"A">>

NameKEEP == <<"K", "E", "E", "P">>

\* the lines a .env file is made of
DotEnvLines ==
    {<<"K", "E", "E", "P", "=", "f", "r", "o", "m", "f", "i", "l", "e">>,
     <<"A", "=", "o", "n", "e">>,
     <<"e", "x", "p", "o", "r", "t", " ", "A", "=", "t", "w", "o">>,
     <<" ", "A", " ", "=", " ", "\"", "t", "h", "r", "e", "e", "\"", " ">>,
     <<"#", " ", "A", "=", "n", "o">>,
     <<"A", "=">>,
     <<"=", "x">>}

\* what the environment holds before: a variable is not set, set to the empty
\* string, or set to a value
EnvValues == {<<>>, <<"a", "l", "r", "e", "a", "d", "y">>}

Environments == UNION { [names -> EnvValues] : names \in SUBSET {NameA, NameKEEP} }

DotEnvFiles ==
    {[exists |-> FALSE, lines |-> <<>>, loaded |-> FALSE]}
    \cup { [exists |-> TRUE, lines |-> lines, loaded |-> FALSE] :
             lines \in SeqsUpTo(DotEnvLines, MaxLines) }

EnvInit ==
    /\ environ \in Environments
    /\ dotenv \in DotEnvFiles
    /\ users = EmptyTable
    /\ packaging_rates = EmptyTable
    /\ shipping_rates = EmptyTable
    /\ seedRun = NoSeedRun
    /\ main = Serving
    /\ ServerInit
    /\ calcForm = NoCalcForm
    /\ calcItem = [Grams |-> F(0), PrintMinutes |-> F(0), LaborMinutes |-> F(0),
                   Quantity |-> F(0), CostPerKg |-> F(0)]
    /\ calcExtra = <<>>
    /\ calcGlobal = ZeroGlobal
    /\ CalcIdle

EnvNext == LoadDotEnv

SpecEnv == EnvInit /\ [][EnvNext]_vars

\* ---------------------------------------------------------------------------
\* C20
\* ---------------------------------------------------------------------------

\* C20: loadDotEnv never overwrites an existing environment variable: every
\* variable that is set when it is called is still set to the same value when
\* it returns
C20_KeepsExistingVariables ==
    [][\A k \in DOMAIN environ : k \in DOMAIN environ' /\ environ'[k] = environ[k]]_vars

\* ---------------------------------------------------------------------------
\* C21
\* ---------------------------------------------------------------------------

\* the amounts a pass-through cost is raised by
Raises == {F(1), Q(1, 2)}

\* the GlobalInput with the packaging cost raised by dp and the shipping cost
\* by ds
Raised(global, dp, ds) ==
    [global EXCEPT !.PackagingCost = FAdd(@, dp), !.ShippingCost = FAdd(@, ds)]

\* result r2 is result r1 with the Total raised by d and the five computed
\* figures unchanged
PassedThrough(r1, r2, d) ==
    /\ r2.Totals.Total = FAdd(r1.Totals.Total, d)
    /\ r2.Breakdown.Margin = r1.Breakdown.Margin
    /\ r2.Breakdown.Tax = r1.Breakdown.Tax
    /\ r2.Breakdown.Overhead = r1.Breakdown.Overhead
    /\ r2.Breakdown.FailureInsurance = r1.Breakdown.FailureInsurance
    /\ r2.Breakdown.Subtotal = r1.Breakdown.Subtotal

\* C21: in Calculate and in calculateQuoteSnapshot, raising the packaging cost
\* or the shipping cost by d, all else equal, raises the Total by exactly d
\* and leaves Margin, Tax, Overhead, FailureInsurance and Subtotal unchanged
C21_PackagingAndShippingPassThrough ==
    \A d \in Raises :
        /\ calcResult.done =>
              /\ PassedThrough(calcResult, Calculate(calcItem, Raised(calcGlobal, d, F(0))), d)
              /\ PassedThrough(calcResult, Calculate(calcItem, Raised(calcGlobal, F(0), d)), d)
        /\ (snapResult.done /\ ~snapResult.err) =>
              /\ PassedThrough(snapResult,
                    calculateQuoteSnapshot(CalcQuoteItems, Raised(calcGlobal, d, F(0)),
                                           CalcMaterials), d)
              /\ PassedThrough(snapResult,
                    calculateQuoteSnapshot(CalcQuoteItems, Raised(calcGlobal, F(0), d),
                                           CalcMaterials), d)

C21_Witness ==
    /\ calcResult.done /\ snapResult.done /\ ~snapResult.err
    /\ calcGlobal.MarginPercent = F(25) /\ calcGlobal.TaxEnabled
    /\ calcGlobal.TaxPercent = F(25) /\ calcGlobal.PackagingCost = F(5)
    /\ FGt(calcResult.Breakdown.Margin, F(0)) /\ FGt(snapResult.Breakdown.Tax, F(0))
    /\ Calculate(calcItem, Raised(calcGlobal, F(1), F(0))).Totals.Total
          = FAdd(calcResult.Totals.Total, F(1))

\* ---------------------------------------------------------------------------
\* C22
\* ---------------------------------------------------------------------------

\* the candidate keys of a field in priority order: k1, breakdown_k1, k2,
\* breakdown_k2, ...
Candidates(f) ==
    [i \in 1..(2 * Len(Aliases[f])) |->
        IF i % 2 = 1 THEN Aliases[f][(i + 1) \div 2]
        ELSE BreakdownPrefix \o Aliases[f][i \div 2]]

\* the positions of the candidates the flattened document holds a number under
PresentCandidates(raw, f) ==
    { i \in 1..Len(Candidates(f)) : LeafValues(raw, Candidates(f)[i]) # {} }

\* C22: when a breakdown document holds several candidate keys of a field,
\* the field is read from the one that comes first in the order k1,
\* breakdown_k1, k2, breakdown_k2, ...: the plain key before its breakdown_
\* form, any form of an earlier alias before any form of a later one
C22_EarliestCandidateWins ==
    (lastRead.kind = "detail" /\ ~lastRead.detail.err) =>
        LET raw == quotes[lastRead.detail.ID].breakdown_json
        IN  \A f \in BreakdownFields :
               Cardinality(PresentCandidates(raw, f)) >= 2 =>
                  lastRead.detail.Breakdown[f] \in
                     LeafValues(raw, Candidates(f)[
                        CHOOSE i \in PresentCandidates(raw, f) :
                           \A j \in PresentCandidates(raw, f) : i <= j])

C22_Witness ==
    /\ lastRead.kind = "detail" /\ ~lastRead.detail.err
    /\ PresentCandidates(quotes[1].breakdown_json, "MaterialCost") = {2, 3}
    /\ LeafValues(quotes[1].breakdown_json, KeyMaterial) = {F(2)}
    /\ lastRead.detail.Breakdown.MaterialCost = F(4)

\* ---------------------------------------------------------------------------
\* C23
\* ---------------------------------------------------------------------------

\* C23: extractBreakdownFromJSON is a function of the document's text: two
\* reads of the same stored quote, one after the other, show the same
\* Breakdown, also when two keys of the document normalize or flatten to the
\* same name
C23_SameTextSameBreakdown ==
    [][(/\ lastRead.kind = "detail" /\ ~lastRead.detail.err
        /\ lastRead'.kind = "detail" /\ ~lastRead'.detail.err
        /\ lastRead'.detail.ID = lastRead.detail.ID
        /\ quotes'[lastRead.detail.ID].breakdown_json
              = quotes[lastRead.detail.ID].breakdown_json)
          => lastRead'.detail.Breakdown = lastRead.detail.Breakdown]_vars

\* ---------------------------------------------------------------------------
\* C24
\* ---------------------------------------------------------------------------

\* the ids of the stored line items of a quote
ItemsOfQuote(q) == { i \in DOMAIN quote_items : quote_items[i].quote_id = q }

\* the material cost of the stored line items ids at the given waste
\* percentage: grams / 1000 * cost_per_kg * (1 + waste / 100) * quantity
RECURSIVE StoredMaterialCost(_, _)
StoredMaterialCost(ids, wastePercent) ==
    IF ids = {} THEN F(0)
    ELSE LET i == CHOOSE x \in ids : \A y \in ids : x <= y
             item == quote_items[i]
         IN  FAdd(FMul(FMul(FMul(FDiv(item.grams, F(1000)),
                                 materials[item.material_id].cost_per_kg),
                            FAdd(F(1), FDiv(wastePercent, F(100)))),
                       F(item.quantity)),
                  StoredMaterialCost(ids \ {i}, wastePercent))

\* C24: for every stored quote the tax_percent_snapshot, waste_percent and
\* margin_percent columns are the percentages its breakdown_json was computed
\* with: Tax is tax_percent_snapshot % of Subtotal + Overhead +
\* FailureInsurance + Margin, MaterialCost is the material cost of its line
\* items at waste_percent, Margin is margin_percent % of Subtotal + Overhead +
\* FailureInsurance; also when the rate configuration is updated while the
\* quote is being saved
C24_StoredPercentagesAreTheOnesUsed ==
    \A q \in DOMAIN quotes :
        \A b \in extractBreakdownFromJSON(quotes[q].breakdown_json) :
            /\ b.Tax = (IF quotes[q].tax_enabled
                        THEN FMul(FDiv(quotes[q].tax_percent_snapshot, F(100)),
                                  FAdd(FAdd(FAdd(b.Subtotal, b.Overhead),
                                            b.FailureInsurance), b.Margin))
                        ELSE F(0))
            /\ b.MaterialCost = StoredMaterialCost(ItemsOfQuote(q), quotes[q].waste_percent)
            /\ b.Margin = FMul(FDiv(quotes[q].margin_percent, F(100)),
                               FAdd(FAdd(b.Subtotal, b.Overhead), b.FailureInsurance))

\* a quote saved with the rates read before an update that was committed
\* before the quote was
C24_Witness ==
    \E q \in DOMAIN quotes :
        /\ quotes[q].tax_percent_snapshot # rate_config[1].TaxPercent
        /\ quotes[q].tax_enabled
        /\ quotes[q].margin_percent = F(25)
        /\ quotes[q].waste_percent = F(50)
        /\ \E b \in extractBreakdownFromJSON(quotes[q].breakdown_json) :
              FGt(b.MaterialCost, F(0)) /\ FGt(b.Margin, F(0))

\* ---------------------------------------------------------------------------
\* C25
\* ---------------------------------------------------------------------------

\* both pricing paths have priced the same single line item
SingleItemPriced ==
    /\ calcResult.done /\ ~calcResult.err
    /\ snapResult.done /\ ~snapResult.err
    /\ calcExtra = <<>>

C26_DetailNeverChanges ==
    (lastRead.kind = "detail" /\ ~lastRead.detail.err) =>
        getQuoteDetail(lastRead.detail.ID) = {lastRead.detail}

\* ---------------------------------------------------------------------------
\* The seed and the admin's materials page on one database
\* ---------------------------------------------------------------------------
MaterialsNext ==
    \/ Run
    \/ MaterialsCreate
    \/ MaterialsUpdate

SpecMaterials == SeedInit /\ [][MaterialsNext]_vars

\* ---------------------------------------------------------------------------
\* C27
\* ---------------------------------------------------------------------------

\* C27: whatever seeding and admin create and update operations happened,
\* every active material has a cost_per_kg greater than 0, so the lookup of
\* an active material never hands a cost of 0 or less to a pricing
\* computation
C27_ActiveMaterialsCostPositive ==
    \A id \in DOMAIN materials :
        materials[id].active => FGt(materials[id].cost_per_kg, F(0))

\* ---------------------------------------------------------------------------
\* Startup: main of cmd/server and seed.Run on one database, then the login
\* and the rates page
\* ---------------------------------------------------------------------------

\* the text of a password or of a hash as the sequence of its parts: a hash is
\* the name of its algorithm followed by what was hashed, so the hash of a
\* text is never that text, and two texts have the same hash only when equal

\* hex(sha256(password))
hashPassword(password) == <<"sha256">> \o password

\* the password of the Config as typed
ConfiguredPassword == <<seedRun.cfg.AdminPassword>>

UserWithEmail(table, email) == { id \in DOMAIN table : table[id].email = email }

\* SELECT password_hash FROM users WHERE email = ?; the hash of the password,
\* or the password itself, must be the stored text
validateCredentials(table, email, password) ==
    IF UserWithEmail(table, email) = {} THEN FALSE
    ELSE LET passwordHash == table[CHOOSE id \in UserWithEmail(table, email) : TRUE].password_hash
         IN  passwordHash = hashPassword(password) \/ passwordHash = password

\* the variables neither main nor a request of the login and rates pages touches
MainOthersUnchanged ==
    UNCHANGED <<packaging_rates, shipping_rates, seedRun, environ, dotenv, materials,
                quotes, quote_items, sqlite_sequence, save, lastRead, calcForm, calcItem,
                calcExtra, calcGlobal, calcResult, snapResult, snapDocs, snapRead>>

\* ensureAdminUser up to its SELECT EXISTS: nothing to do when the Config has
\* no email or no password, or when the user is there
EnsureAdminUserCheck ==
    /\ main.pc = "ensureAdminUser"
    /\ main' = [main EXCEPT !.pc =
                  IF \/ seedRun.cfg.AdminEmail = "" \/ seedRun.cfg.AdminPassword = ""
                     \/ UserWithEmail(users, seedRun.cfg.AdminEmail) # {}
                  THEN "ensureRateConfig" ELSE "insertAdmin"]
    /\ UNCHANGED <<users, rate_config, writer>>
    /\ MainOthersUnchanged

\* ensureAdminUser's INSERT; email is UNIQUE, and main ends with log.Fatalf
\* when the INSERT fails
EnsureAdminUserInsert ==
    /\ main.pc = "insertAdmin"
    /\ writer = NoWriter
    /\ IF UserWithEmail(users, seedRun.cfg.AdminEmail) # {}
       THEN /\ main' = [main EXCEPT !.pc = "fatal"]
            /\ UNCHANGED users
       ELSE /\ users' = Merge(users, [id \in {Max(DOMAIN users) + 1} |->
                                        [email |-> seedRun.cfg.AdminEmail,
                                         password_hash |-> hashPassword(ConfiguredPassword)]])
            /\ main' = [main EXCEPT !.pc = "ensureRateConfig"]
    /\ UNCHANGED <<rate_config, writer>>
    /\ MainOthersUnchanged

\* main's call of ensureRateConfig, after which the router serves
MainEnsureRateConfig ==
    /\ main.pc = "ensureRateConfig"
    /\ writer = NoWriter
    /\ rate_config' = ensureRateConfig(rate_config)
    /\ main' = [main EXCEPT !.pc = "serving"]
    /\ UNCHANGED <<users, writer>>
    /\ MainOthersUnchanged

\* getRateConfig: ensureRateConfig ...
GetRateConfigEnsure ==
    /\ main.pc = "serving"
    /\ main.rates.pc = "idle"
    /\ writer = NoWriter
    /\ rate_config' = ensureRateConfig(rate_config)
    /\ main' = [main EXCEPT !.rates.pc = "select"]
    /\ UNCHANGED <<users, writer>>
    /\ MainOthersUnchanged

\* ... and the SELECT ... WHERE id = 1
GetRateConfigSelect ==
    /\ main.pc = "serving"
    /\ main.rates.pc = "select"
    /\ main' = [main EXCEPT !.rates =
                  IF 1 \in DOMAIN rate_config
                  THEN [pc |-> "idle", called |-> TRUE, err |-> FALSE, rc |-> rate_config[1]]
                  ELSE [pc |-> "idle", called |-> TRUE, err |-> TRUE,
                        rc |-> DefaultRateConfig]]
    /\ UNCHANGED <<users, rate_config, writer>>
    /\ MainOthersUnchanged

\* handleAdminRatesSubmit once the router serves
ServingRatesSubmit == main.pc = "serving" /\ RatesSubmit

\* handleLoginSubmit: validateCredentials on the posted email and password
LoginSubmit(email, password) ==
    /\ main.pc = "serving"
    /\ main' = [main EXCEPT !.login =
                  [called |-> TRUE, email |-> email, password |-> password,
                   found |-> UserWithEmail(users, email) # {},
                   ok |-> validateCredentials(users, email, password)]]
    /\ UNCHANGED <<users, rate_config, writer>>
    /\ MainOthersUnchanged

LoginEmails == {"admin@oworks.com", "other@oworks.com"}

\* the passwords typed: the configured one, another one, and the text of a
\* stored password_hash
LoginPasswords ==
    {<<"12345">>, <<"wrong">>} \cup { users[id].password_hash : id \in DOMAIN users }

StartupInit == FreshDatabase /\ main = [Serving EXCEPT !.pc = "ensureAdminUser"]

StartupNext ==
    \/ Run
    \/ EnsureAdminUserCheck
    \/ EnsureAdminUserInsert
    \/ MainEnsureRateConfig
    \/ GetRateConfigEnsure
    \/ GetRateConfigSelect
    \/ ServingRatesSubmit
    \/ \E email \in LoginEmails, password \in LoginPasswords : LoginSubmit(email, password)

SpecStartup == StartupInit /\ [][StartupNext]_vars

\* ---------------------------------------------------------------------------
\* C28
\* ---------------------------------------------------------------------------

\* a step of seed.Run, of main, of getRateConfig or of the login: every step
\* but the UPDATE of handleAdminRatesSubmit
NoUpdateStep == seedRun' # seedRun \/ main' # main

\* C28: once main has started the server, under every interleaving of
\* ensureRateConfig, getRateConfig, updateRateConfig and seed.Run, rate_config
\* holds exactly one row, with id 1; a step of ensureRateConfig or of the seed
\* leaves the values of an existing row as they are; updateRateConfig leaves
\* in the row the values it was given, and getRateConfig returns the values
\* of the row, which are those of the last updateRateConfig
C28_RateConfigSingleton ==
    /\ [](main.pc = "serving" => DOMAIN rate_config = {1})
    /\ [][/\ (NoUpdateStep /\ 1 \in DOMAIN rate_config) => rate_config' = rate_config
          /\ (~NoUpdateStep /\ rate_config' # rate_config) =>
                \E form \in RateForms :
                   /\ ~parseRateConfigForm(form).err
                   /\ rate_config' = [id \in {1} |-> parseRateConfigForm(form).rates]
          /\ (main.rates.pc = "select" /\ main'.rates.pc = "idle") =>
                /\ ~main'.rates.err
                /\ main'.rates.rc = rate_config[1]]_vars

\* the seed ran after the server had started and the rates had been updated,
\* and getRateConfig returned the updated rates afterwards
C28_Witness ==
    /\ main.pc = "serving"
    /\ seedRun.cfg.AdminEmail # "" /\ seedRun.cfg.AdminPassword # ""
    /\ seedRun.pc = "idle" /\ seedRun.succeeded = 1 /\ seedRun.returned.Inserts = 3
    /\ main.rates.called /\ main.rates.pc = "idle"
    /\ main.rates.rc.TaxPercent = F(25)
    /\ rate_config[1] = main.rates.rc

\* ---------------------------------------------------------------------------
\* C29
\* ---------------------------------------------------------------------------

\* C29: validateCredentials(email, p) returns true only if a user with that
\* email exists and p is the password the account was registered with, the
\* configured admin password for the admin account; no other text
\* authenticates, the stored password_hash included
C29_OnlyTheRegisteredPassword ==
    (main.login.called /\ main.login.ok) =>
        /\ main.login.found
        /\ main.login.email = seedRun.cfg.AdminEmail
        /\ main.login.password = ConfiguredPassword

\* ---------------------------------------------------------------------------
\* C30
\* ---------------------------------------------------------------------------

\* C30: whichever of seed.Run and ensureAdminUser created the admin user,
\* validateCredentials called afterwards with the configured, non-empty
\* email and password returns true
C30_ConfiguredAdminCanLogIn ==
    (/\ main.login.called /\ main.login.found
     /\ seedRun.cfg.AdminEmail # "" /\ seedRun.cfg.AdminPassword # ""
     /\ main.login.email = seedRun.cfg.AdminEmail
     /\ main.login.password = ConfiguredPassword)
        => main.login.ok

====
